---- MODULE Spec2Model ----
\* Standards synchronisation pipeline (scripts/sync_standards): the CONTEXT.md
\* parser, the generated-file validator and the SyncGenerator.sync() pipeline.
\*
\* Text is modelled at character level: a Python str is a sequence of
\* one-character strings.  To keep states readable, the state holds paths and
\* lines by name (a TLA+ string) and Chars(name) gives the characters.
EXTENDS Integers, Sequences, FiniteSets, TLC

\* ---------------------------------------------------------------------------
\* Bounds of the model and constants of the program
\* ---------------------------------------------------------------------------

\* Generated files of the validator specification have at most this many lines.
MaxLines == 4

\* Documents of the parser specification have at most this many lines.
MaxDocLines == 5

\* Length of the overlong sample line fed to the validator.
LongLineLen == 121

\* Length of the overlong heading and of the overlong sentence fed to the parser.
LongTitleLen == 61

\* validator.py: "len(line) > 120"
MaxLineLen == 120

\* parser.py: "if len(title) > 60"
MaxTitleLen == 60

\* parser.py: "title[:57] + '...'"
TitleKeep == 57

\* ---------------------------------------------------------------------------
\* Python str operations on character sequences
\* ---------------------------------------------------------------------------

\* Whitespace removed by str.strip() and matched by the regex class \s.
Whitespace == {" ", "\t", "\n"}

\* Characters matched by the regex class \d.
Digits == {"0", "1", "2", "3", "4", "5", "6", "7", "8", "9"}

\* Characters matched by the regex class \w, as far as ASCII goes.
WordChars ==
    Digits \cup {"_"}
    \cup {"a", "b", "c", "d", "e", "f", "g", "h", "i", "j", "k", "l", "m",
          "n", "o", "p", "q", "r", "s", "t", "u", "v", "w", "x", "y", "z"}
    \cup {"A", "B", "C", "D", "E", "F", "G", "H", "I", "J", "K", "L", "M",
          "N", "O", "P", "Q", "R", "S", "T", "U", "V", "W", "X", "Y", "Z"}

\* "v = expr", then body(v): gives body the value of expr, evaluated once.
With(expr, body(_)) == CHOOSE r \in {body(v) : v \in {expr}} : TRUE

\* s.startswith(p)
StartsWith(s, p) ==
    /\ Len(s) >= Len(p)
    /\ SubSeq(s, 1, Len(p)) = p

\* s.endswith(p)
EndsWith(s, p) ==
    /\ Len(s) >= Len(p)
    /\ SubSeq(s, Len(s) - Len(p) + 1, Len(s)) = p

\* s[i:] with a 1-based index
From(s, i) == SubSeq(s, i, Len(s))

\* Smallest element of a non-empty set of integers.
MinOf(S) == CHOOSE x \in S : \A y \in S : x <= y

\* Largest element of a non-empty set of integers.
MaxOf(S) == CHOOSE x \in S : \A y \in S : x >= y

\* p, not empty, occurs in s at index i.
OccursAt(s, p, i) ==
    /\ s[i] = p[1]
    /\ \A k \in 2..Len(p) : s[i + k - 1] = p[k]

\* s.find(p, from) for a non-empty p: 1-based index of the first occurrence of
\* p at or after from, and 0 when there is none.
Find(s, p, from) ==
    With(MaxOf({from, Len(s) - Len(p) + 2}),
         LAMBDA none :
            With(CHOOSE i \in from..none :
                    /\ i = none \/ OccursAt(s, p, i)
                    /\ \A j \in from..(i - 1) : ~OccursAt(s, p, j),
                 LAMBDA i : IF i = none THEN 0 ELSE i))

\* p in s, for a non-empty p
IsSubstr(p, s) == \E i \in 1..(Len(s) - Len(p) + 1) : OccursAt(s, p, i)

\* s.lstrip()
LStrip(s) ==
    IF \A i \in 1..Len(s) : s[i] \in Whitespace THEN <<>>
    ELSE From(s, CHOOSE i \in 1..Len(s) :
                    /\ s[i] \notin Whitespace
                    /\ \A j \in 1..(i - 1) : s[j] \in Whitespace)

\* s.rstrip()
RStrip(s) ==
    IF \A i \in 1..Len(s) : s[i] \in Whitespace THEN <<>>
    ELSE SubSeq(s, 1, CHOOSE i \in 1..Len(s) :
                        /\ s[i] \notin Whitespace
                        /\ \A j \in (i + 1)..Len(s) : s[j] \in Whitespace)

\* s.strip()
Strip(s) == RStrip(LStrip(s))

\* s.split(sep, maxsplit); maxsplit = -1 splits at every occurrence.
RECURSIVE Split(_, _, _)
Split(s, sep, maxsplit) ==
    With(Find(s, sep, 1),
         LAMBDA i : IF maxsplit = 0 \/ i = 0
                    THEN <<s>>
                    ELSE <<SubSeq(s, 1, i - 1)>>
                         \o Split(From(s, i + Len(sep)), sep, maxsplit - 1))

\* s.split("\n")
Lines(s) == Split(s, <<"\n">>, -1)

\* sep.join(parts)
RECURSIVE Join(_, _)
Join(parts, sep) ==
    IF Len(parts) = 0 THEN <<>>
    ELSE IF Len(parts) = 1 THEN parts[1]
    ELSE parts[1] \o sep \o Join(Tail(parts), sep)

\* len(re.findall(p, s)) for a literal pattern p: non-overlapping occurrences.
CountOcc(s, p) == Len(Split(s, p, -1)) - 1

\* The elements of a finite set of integers in increasing order.
RECURSIVE SortedSeq(_)
SortedSeq(S) ==
    IF S = {} THEN <<>>
    ELSE With(MinOf(S), LAMBDA m : <<m>> \o SortedSeq(S \ {m}))

\* ---------------------------------------------------------------------------
\* Named texts: the characters of every path and line the model uses
\* ---------------------------------------------------------------------------

\* The backtick.  A TLA+ string literal cannot hold one, so the model writes
\* the character as a tilde, which none of its texts uses otherwise.
Backtick == "~"

\* The fenced-code delimiter, three backticks.
Fence == <<Backtick, Backtick, Backtick>>

\* A run of n copies of the character c.
Repeat(c, n) == [i \in 1..n |-> c]

Chars(name) ==
    CASE name = "" -> <<>>
      [] name = "---" -> <<"-", "-", "-">>
      [] name = "priority: 1" -> <<"p", "r", "i", "o", "r", "i", "t", "y", ":", " ", "1">>
      [] name = "globs: x" -> <<"g", "l", "o", "b", "s", ":", " ", "x">>
      [] name = "~~~" -> Fence
      [] name = "# ~~~" -> <<"#", " ">> \o Fence
      [] name = "# h" -> <<"#", " ", "h">>
      [] name = "### h" -> <<"#", "#", "#", " ", "h">>
      [] name = "t " -> <<"t", " ">>
      [] name = "## A" -> <<"#", "#", " ", "A">>
      [] name = "## 1. B" -> <<"#", "#", " ", "1", ".", " ", "B">>
      [] name = "### x" -> <<"#", "#", "#", " ", "x">>
      [] name = "### 1.1 H" -> <<"#", "#", "#", " ", "1", ".", "1", " ">> \o Repeat("h", LongTitleLen)
      [] name = "P. b" -> Repeat("p", LongTitleLen) \o <<".", " ", "b">>
      [] name = "LONG" -> Repeat("x", LongLineLen)
      [] name = "- Do a. b" -> <<"-", " ", "D", "o", " ", "a", ".", " ", "b">>
      [] name = "**b** c" -> <<"*", "*", "b", "*", "*", " ", "c">>
      [] name = "Q" -> Repeat("q", MaxTitleLen)
      [] name = "## Secret shell" -> <<"#", "#", " ", "S", "e", "c", "r", "e", "t", " ", "s", "h", "e", "l", "l">>
      [] name = "## Python" -> <<"#", "#", " ", "P", "y", "t", "h", "o", "n">>
      [] name = "## 3.1 S" ->
            <<"#", "#", " ", "3", ".", "1", " ", "S">>
      [] name = "## 1. 2. X" ->
            <<"#", "#", " ", "1", ".", " ", "2", ".", " ", "X">>
      [] name = "### 3.1 File Naming" ->
            <<"#", "#", "#", " ", "3", ".", "1", " ", "F", "i", "l", "e", " ", "N", "a", "m", "i", "n", "g">>
      [] name = "### 3. F" ->
            <<"#", "#", "#", " ", "3", ".", " ", "F">>
      [] name = "## Security" ->
            <<"#", "#", " ", "S", "e", "c", "u", "r", "i", "t", "y">>
      [] name = "## 3. Bash Standards" ->
            <<"#", "#", " ", "3", ".", " ", "B", "a", "s", "h", " ", "S", "t", "a", "n", "d", "a", "r", "d", "s">>
      [] name = "## JSON and YAML" ->
            <<"#", "#", " ", "J", "S", "O", "N", " ", "a", "n", "d", " ", "Y", "A", "M", "L">>
      [] name = "## Pre-commit security" ->
            <<"#", "#", " ", "P", "r", "e", "-", "c", "o", "m", "m", "i", "t", " ", "s", "e", "c", "u", "r", "i", "t", "y">>
      [] name = "## Documentation of Python Standards" ->
            <<"#", "#", " ", "D", "o", "c", "u", "m", "e", "n", "t", "a", "t", "i", "o", "n", " ", "o", "f", " ", "P", "y", "t", "h", "o", "n", " ", "S", "t", "a", "n", "d", "a", "r", "d", "s">>
      [] name = "## General" ->
            <<"#", "#", " ", "G", "e", "n", "e", "r", "a", "l">>
      [] name = "Incorrect:" -> <<"I", "n", "c", "o", "r", "r", "e", "c", "t", ":">>
      [] name = "do this" -> <<"d", "o", " ", "t", "h", "i", "s">>
      [] name = "t" -> <<"t">>
      [] name = "# BAD" -> <<"#", " ", "B", "A", "D">>
      [] name = "# GOOD" -> <<"#", " ", "G", "O", "O", "D">>
      [] name = "y" -> <<"y">>
      [] name = "CLAUDE.md" -> <<"C", "L", "A", "U", "D", "E", ".", "m", "d">>
      [] name = ".cursor/rules/006_security.mdc" ->
            <<".", "c", "u", "r", "s", "o", "r", "/", "r", "u", "l", "e", "s", "/",
              "0", "0", "6", "_", "s", "e", "c", "u", "r", "i", "t", "y",
              ".", "m", "d", "c">>
      [] name = ".aider/.aider.conf.yml" ->
            <<".", "a", "i", "d", "e", "r", "/", ".", "a", "i", "d", "e", "r",
              ".", "c", "o", "n", "f", ".", "y", "m", "l">>
      [] name = "notes.txt" -> <<"n", "o", "t", "e", "s", ".", "t", "x", "t">>
      [] name = "Security" -> <<"S", "e", "c", "u", "r", "i", "t", "y">>
      [] name = "Secret shell" -> <<"S", "e", "c", "r", "e", "t", " ", "s", "h", "e", "l", "l">>
      [] name = "General" -> <<"G", "e", "n", "e", "r", "a", "l">>
      [] name = "## 1." -> <<"#", "#", " ", "1", ".">>
      [] name = "### 1.1" -> <<"#", "#", "#", " ", "1", ".", "1">>
      [] name = "##A" -> <<"#", "#", "A">>
      [] name = "## B" -> <<"#", "#", " ", "B">>
      [] name = "### 1.1 x" -> <<"#", "#", "#", " ", "1", ".", "1", " ", "x">>

\* The text of a file or document given as its lines: "\n".join(lines).
Text(lines) == Join([i \in 1..Len(lines) |-> Chars(lines[i])], <<"\n">>)

\* ---------------------------------------------------------------------------
\* validator.py
\* ---------------------------------------------------------------------------

\* One entry of Validator.errors or Validator.warnings: the f-string
\* "{filepath}[:{line}]: {msg}" kept as its parts (line = 0: no line number).
Entry(filepath, line, msg) == [file |-> filepath, line |-> line, msg |-> msg]

\* Path(filepath).suffix: the part of the final path component from its last
\* dot, unless that dot is the component's first or last character.
Suffix(filepath) ==
    With(Split(Chars(filepath), <<"/">>, -1),
         LAMBDA parts :
            With(parts[Len(parts)],
                 LAMBDA name :
                    With({i \in 1..Len(name) : name[i] = "."},
                         LAMBDA dots :
                            IF dots # {} /\ 1 < MaxOf(dots) /\ MaxOf(dots) < Len(name)
                            THEN From(name, MaxOf(dots))
                            ELSE <<>>)))

\* What one line of a YAML text is, for the line forms the model's texts use.
YamlLineKind(line) ==
    With(Strip(line),
         LAMBDA s :
            IF s = <<>> THEN "blank"
            ELSE IF s[1] = "#" THEN "comment"
            ELSE IF s = <<"-", "-", "-">> THEN "docstart"
            ELSE IF s[1] = Backtick \/ (s[1] = "[" /\ s[Len(s)] # "]") THEN "bad"
            ELSE IF IsSubstr(<<":", " ">>, s) \/ s[Len(s)] = ":" THEN "pair"
            ELSE "scalar")

\* The key of a "key: value" line.
YamlKey(line) ==
    With(Strip(line), LAMBDA s : Strip(SubSeq(s, 1, Find(s, <<":">>, 1) - 1)))

\* What yaml.safe_load makes of the lines that are neither blank nor comment,
\* once a leading document marker is dropped.
YamlOfBody(body) ==
    With({YamlLineKind(body[j]) : j \in 1..Len(body)},
         LAMBDA kinds :
            IF "bad" \in kinds \/ "docstart" \in kinds THEN [kind |-> "error", keys |-> {}]
            ELSE IF kinds = {} THEN [kind |-> "none", keys |-> {}]
            ELSE IF kinds = {"pair"}
            THEN [kind |-> "map", keys |-> {YamlKey(body[j]) : j \in 1..Len(body)}]
            ELSE IF kinds = {"scalar"} THEN [kind |-> "str", keys |-> {}]
            ELSE [kind |-> "error", keys |-> {}])

\* yaml.safe_load(text), as far as the validator looks at it: "error" when it
\* raises yaml.YAMLError (a character that starts no token, an unclosed flow
\* sequence, a second document, a scalar mixed with mapping entries), "none"
\* for a text of blank and comment lines only, "map" with its keys for a block
\* mapping, "str" for a plain scalar.
YamlLoad(text) ==
    With(SelectSeq(Lines(text), LAMBDA l : YamlLineKind(l) \notin {"blank", "comment"}),
         LAMBDA sig :
            IF Len(sig) > 0 /\ YamlLineKind(sig[1]) = "docstart"
            THEN YamlOfBody(Tail(sig))
            ELSE YamlOfBody(sig))

\* What validating one file adds: the entries appended to self.errors and to
\* self.warnings, and whether an exception left the validator.
Findings(errs, warns, raised) == [errors |-> errs, warnings |-> warns, raised |-> raised]

\* One piece of validation after another: the second runs unless the first raised.
Then(first, second) ==
    IF first.raised THEN first
    ELSE Findings(first.errors \o second.errors,
                  first.warnings \o second.warnings,
                  second.raised)

\* Validator._validate_yaml
validate_yaml(filepath, content) ==
    IF YamlLoad(content).kind = "error"
    THEN Findings(<<Entry(filepath, 0, "Invalid YAML syntax")>>, <<>>, FALSE)
    ELSE Findings(<<>>, <<>>, FALSE)

\* The level of the heading that re.findall(r"^(#{1,6})\s+", ..., re.MULTILINE)
\* finds on line i of lines, and 0 when it finds none: one to six "#" and then
\* whitespace, which for a line that is all "#" is the newline ending it.
HeadingLevel(lines, i) ==
    With(IF \A j \in 1..Len(lines[i]) : lines[i][j] = "#"
         THEN Len(lines[i])
         ELSE (CHOOSE j \in 1..Len(lines[i]) :
                    /\ lines[i][j] # "#"
                    /\ \A k \in 1..(j - 1) : lines[i][k] = "#") - 1,
         LAMBDA n :
            IF n < 1 \/ n > 6 THEN 0
            ELSE IF n < Len(lines[i])
            THEN (IF lines[i][n + 1] \in Whitespace THEN n ELSE 0)
            ELSE IF i < Len(lines) THEN n
            ELSE 0)

\* The heading-hierarchy warnings of _validate_markdown for the heading levels
\* in document order: one for each heading more than one level below the one
\* before it.
HierarchyWarnings(filepath, levels) ==
    With(Cardinality({k \in 2..Len(levels) : levels[k] > levels[k - 1] + 1}),
         LAMBDA n : [k \in 1..n |-> Entry(filepath, 0, "Heading hierarchy skip")])

\* A Markdown validation that does not count fence delimiters.
validate_markdown_unfenced(filepath, content) ==
    With(Lines(content),
         LAMBDA lines :
            Findings(<<>>,
                     HierarchyWarnings(filepath,
                        SelectSeq([i \in 1..Len(lines) |-> HeadingLevel(lines, i)],
                                  LAMBDA level : level > 0)),
                     FALSE))

\* Validator._validate_markdown
validate_markdown(filepath, content) ==
    With(Lines(content),
         LAMBDA lines :
            Findings(IF CountOcc(content, Fence) % 2 # 0
                     THEN <<Entry(filepath, 0, "Unclosed code fence")>>
                     ELSE <<>>,
                     HierarchyWarnings(filepath,
                        SelectSeq([i \in 1..Len(lines) |-> HeadingLevel(lines, i)],
                                  LAMBDA level : level > 0)),
                     FALSE))

\* "key not in metadata" for what safe_load returned: a key test on a mapping,
\* a substring test on a str.
Lacks(metadata, frontmatter, key) ==
    IF metadata.kind = "map" THEN key \notin metadata.keys
    ELSE ~IsSubstr(key, frontmatter)

\* The try block of Validator._validate_mdc: on None the membership test
\* raises TypeError, which "except yaml.YAMLError" does not catch.
CheckFrontmatter(filepath, frontmatter) ==
    With(YamlLoad(frontmatter),
         LAMBDA metadata :
            IF metadata.kind = "error"
            THEN Findings(<<Entry(filepath, 0, "Invalid frontmatter YAML")>>, <<>>, FALSE)
            ELSE IF metadata.kind = "none" THEN Findings(<<>>, <<>>, TRUE)
            ELSE Findings(<<>>,
                    (IF Lacks(metadata, frontmatter, <<"p", "r", "i", "o", "r", "i", "t", "y">>)
                     THEN <<Entry(filepath, 0, "Missing 'priority' in frontmatter")>>
                     ELSE <<>>)
                    \o (IF Lacks(metadata, frontmatter, <<"g", "l", "o", "b", "s">>)
                        THEN <<Entry(filepath, 0, "Missing 'globs' in frontmatter")>>
                        ELSE <<>>),
                    FALSE))

\* Validator._validate_mdc
validate_mdc(filepath, content) ==
    With(Split(content, <<"-", "-", "-">>, 2),
         LAMBDA parts :
            IF ~StartsWith(content, <<"-", "-", "-">>)
            THEN Findings(<<Entry(filepath, 0, "Missing YAML frontmatter")>>, <<>>, FALSE)
            ELSE IF Len(parts) < 3
            THEN Findings(<<Entry(filepath, 0, "Invalid frontmatter structure")>>, <<>>, FALSE)
            ELSE Then(CheckFrontmatter(filepath, parts[2]),
                      validate_markdown(filepath, parts[3])))

\* The lines of _validate_common's second loop that get "Line too long": those
\* over the limit that are neither a fence line nor inside a code block.
LongLines(lines) ==
    With({i \in 1..Len(lines) : StartsWith(Strip(lines[i]), Fence)},
         LAMBDA fences :
            {i \in 1..Len(lines) :
                /\ i \notin fences
                /\ Cardinality({j \in fences : j < i}) % 2 = 0
                /\ Len(lines[i]) > MaxLineLen})

\* The entries for the lines at, in line order.
LineEntries(filepath, at, msg) ==
    With(SortedSeq(at), LAMBDA order : [k \in 1..Len(order) |-> Entry(filepath, order[k], msg)])

\* Validator._validate_common
validate_common(filepath, content) ==
    With(Lines(content),
         LAMBDA lines :
            Findings(<<>>,
                LineEntries(filepath,
                            {i \in 1..Len(lines) :
                                EndsWith(lines[i], <<" ">>) \/ EndsWith(lines[i], <<"\t">>)},
                            "Trailing whitespace")
                \o (IF content # <<>> /\ ~EndsWith(content, <<"\n">>)
                    THEN <<Entry(filepath, 0, "Missing final newline")>>
                    ELSE <<>>)
                \o LineEntries(filepath, LongLines(lines), "Line too long"),
                FALSE))

\* The format-specific branch of Validator._validate_file.
validate_format(filepath, content) ==
    With(Suffix(filepath),
         LAMBDA suffix :
            IF suffix = <<".", "y", "a", "m", "l">> \/ suffix = <<".", "y", "m", "l">>
            THEN validate_yaml(filepath, content)
            ELSE IF suffix = <<".", "m", "d", "c">> THEN validate_mdc(filepath, content)
            ELSE IF suffix = <<".", "m", "d">> THEN validate_markdown(filepath, content)
            ELSE Findings(<<>>, <<>>, FALSE))

\* Validator._validate_file
validate_file(filepath, content) ==
    Then(validate_format(filepath, content), validate_common(filepath, content))

\* A verdict that warnings block too.
validate_all_result_strict(errs, warns) == Len(errs) = 0 /\ Len(warns) = 0

\* The value validate_all returns: "return len(self.errors) == 0".
validate_all_result(errs, warns) == Len(errs) = 0

\* The loop of Validator.validate_all over files.items(), from item i on:
\* what it appends, whether it raised, and the item it stopped at.
RECURSIVE validate_loop(_, _)
validate_loop(files, i) ==
    IF i > Len(files) THEN [errors |-> <<>>, warnings |-> <<>>, raised |-> FALSE, at |-> i]
    ELSE With(validate_file(files[i].key, Text(files[i].value)),
              LAMBDA f :
                 IF f.raised THEN [errors |-> f.errors, warnings |-> f.warnings,
                                   raised |-> TRUE, at |-> i]
                 ELSE With(validate_loop(files, i + 1),
                           LAMBDA rest : [errors   |-> f.errors \o rest.errors,
                                          warnings |-> f.warnings \o rest.warnings,
                                          raised   |-> rest.raised,
                                          at       |-> rest.at]))

\* Validator.validate_all(files): the lists it leaves, whether it raised, the
\* item the loop stopped at, and the value it returned when it did not raise.
validate_all(files) ==
    With(validate_loop(files, 1),
         LAMBDA st : [errors    |-> st.errors,
                      warnings  |-> st.warnings,
                      raised    |-> st.raised,
                      inspected |-> st.at,
                      result    |-> validate_all_result(st.errors, st.warnings)])

\* ---------------------------------------------------------------------------
\* Python dict operations: a dict is the sequence of its items in insertion
\* order, each item a record [key, value]
\* ---------------------------------------------------------------------------

\* set(d.keys())
Keys(d) == {d[i].key : i \in 1..Len(d)}

\* d[key], for a key of d
Get(d, key) == d[CHOOSE i \in 1..Len(d) : d[i].key = key].value

\* d[key] = value: an existing key keeps its place, a new key goes last.
SetItem(d, key, value) ==
    IF key \in Keys(d)
    THEN [i \in 1..Len(d) |-> IF d[i].key = key
                              THEN [key |-> key, value |-> value]
                              ELSE d[i]]
    ELSE Append(d, [key |-> key, value |-> value])

\* A merge in which the first content returned for a path stays.
UpdateKeepFirst(d, other) == d \o SelectSeq(other, LAMBDA item : item.key \notin Keys(d))

\* d.update(other)
RECURSIVE Update(_, _)
Update(d, other) ==
    IF Len(other) = 0 THEN d
    ELSE Update(SetItem(d, other[1].key, other[1].value), Tail(other))

\* ---------------------------------------------------------------------------
\* parser.py
\* ---------------------------------------------------------------------------

\* How many characters of s, from index from on, are in class before the
\* first that is not: the length a greedy class+ or class* matches there.
Run(s, from, class) ==
    IF \A j \in from..Len(s) : s[j] \in class
    THEN MaxOf({0, Len(s) - from + 1})
    ELSE (CHOOSE j \in from..Len(s) :
                /\ s[j] \notin class
                /\ \A k \in from..(j - 1) : s[k] \in class) - from

\* re.sub(r"^\d+\.\s*", "", title)
StripSectionOrdinal(title) ==
    With(Run(title, 1, Digits),
         LAMBDA n : IF n >= 1 /\ n < Len(title) /\ title[n + 1] = "."
                    THEN LStrip(From(title, n + 2))
                    ELSE title)

\* re.sub(r"^\d+\.\d+\s*", "", title)
StripSubsectionOrdinal(title) ==
    With(Run(title, 1, Digits),
         LAMBDA n :
            IF n >= 1 /\ n < Len(title) /\ title[n + 1] = "." /\ Run(title, n + 2, Digits) >= 1
            THEN LStrip(From(title, n + 2 + Run(title, n + 2, Digits)))
            ELSE title)

\* The prefix that makes a line a heading of the level: "## " or "### ".
Marker(level) == IF level = 2 THEN <<"#", "#", " ">> ELSE <<"#", "#", "#", " ">>

\* The title a heading line of the level gives: "line[3:].strip()" or
\* "line[4:].strip()", then without its number.
HeadingTitle(level, line) ==
    IF level = 2
    THEN StripSectionOrdinal(Strip(From(line, 4)))
    ELSE StripSubsectionOrdinal(Strip(From(line, 5)))

\* "if current: d[current] = '\n'.join(current_content)".  A title that is
\* None and one that is empty are both false, and neither is saved.
SaveCurrent(st) ==
    IF st.current # <<>>
    THEN SetItem(st.d, st.current, Join(st.content, <<"\n">>))
    ELSE st.d

\* The loop of _split_into_sections (level 2) and of _split_into_subsections
\* (level 3) from line i on, and the save after it.  st holds the dict, the
\* current title and the lines collected under it.
RECURSIVE SplitLoop(_, _, _, _)
SplitLoop(lines, i, level, st) ==
    IF i > Len(lines) THEN SaveCurrent(st)
    ELSE IF StartsWith(lines[i], Marker(level))
    THEN SplitLoop(lines, i + 1, level,
                   [d       |-> SaveCurrent(st),
                    current |-> HeadingTitle(level, lines[i]),
                    content |-> <<>>])
    ELSE IF st.current # <<>>
    THEN SplitLoop(lines, i + 1, level, [st EXCEPT !.content = Append(@, lines[i])])
    ELSE SplitLoop(lines, i + 1, level, st)

\* ContextParser._split_into_sections, for self.content = content
split_into_sections(content) ==
    SplitLoop(Lines(content), 1, 2, [d |-> <<>>, current |-> <<>>, content |-> <<>>])

\* ContextParser._split_into_subsections
split_into_subsections(content) ==
    SplitLoop(Lines(content), 1, 3, [d |-> <<>>, current |-> <<>>, content |-> <<>>])

\* Where the language tag of a fence opening at i ends: the index after "```"
\* and the word characters that follow it.
OpenerEnd(s, i) == i + 3 + Run(s, i + 3, WordChars)

\* The pattern "```(\w+)?\n(.*?)```" (DOTALL) matches at index i of s: a fence
\* delimiter, word characters if any, a newline, and a fence delimiter
\* somewhere after it.
BlockAt(s, i) ==
    /\ i + 2 <= Len(s)
    /\ OccursAt(s, Fence, i)
    /\ OpenerEnd(s, i) <= Len(s)
    /\ s[OpenerEnd(s, i)] = "\n"
    /\ Find(s, Fence, OpenerEnd(s, i) + 1) > 0

\* The code block matched at i: where the match ends, and the CodeExample
\* made of it, language "text" when the opener names none.
Block(s, i) ==
    With(OpenerEnd(s, i),
         LAMBDA e :
            With(Find(s, Fence, e + 1),
                 LAMBDA close :
                    [end      |-> close + 3,
                     language |-> IF e > i + 3 THEN SubSeq(s, i + 3, e - 1)
                                  ELSE <<"t", "e", "x", "t">>,
                     code     |-> Strip(SubSeq(s, e + 1, close - 1))]))

\* The characters that stand for the two emoji of the indicator lists, which a
\* string of this module cannot hold: U+274C (cross mark) and U+2705 (check
\* mark).  Neither is a letter, so str.lower() leaves both alone.
CrossMark == "^"
CheckMark == "@"

UpperCase == <<"A", "B", "C", "D", "E", "F", "G", "H", "I", "J", "K", "L", "M", "N", "O", "P", "Q", "R", "S", "T", "U", "V", "W", "X", "Y", "Z">>
LowerCase == <<"a", "b", "c", "d", "e", "f", "g", "h", "i", "j", "k", "l", "m", "n", "o", "p", "q", "r", "s", "t", "u", "v", "w", "x", "y", "z">>

\* The lower-case letter of each upper-case letter.
LowerOf ==
    [c \in {UpperCase[i] : i \in 1..Len(UpperCase)} |->
        LowerCase[CHOOSE i \in 1..Len(UpperCase) : UpperCase[i] = c]]

\* c.lower() for one character
LowerChar(c) == IF c \in DOMAIN LowerOf THEN LowerOf[c] ELSE c

\* s.lower()
Lower(s) == [i \in 1..Len(s) |-> LowerChar(s[i])]

\* "incorrect_indicators" and "correct_indicators" of _is_correct_example
incorrect_indicators ==
    <<<<"w", "r", "o", "n", "g">>,
      <<"i", "n", "c", "o", "r", "r", "e", "c", "t">>,
      <<"b", "a", "d">>,
      <<"d", "o", "n", "'", "t">>,
      <<"n", "e", "v", "e", "r">>,
      <<"a", "v", "o", "i", "d">>,
      <<CrossMark>>>>
correct_indicators ==
    <<<<"c", "o", "r", "r", "e", "c", "t">>,
      <<"r", "i", "g", "h", "t">>,
      <<"g", "o", "o", "d">>,
      <<"d", "o", " ", "t", "h", "i", "s">>,
      <<CheckMark>>>>

\* The comment markers _is_correct_example looks for in the code.
IncorrectMarkers ==
    {<<"#", " ", "W", "R", "O", "N", "G">>, <<"#", " ", "B", "A", "D">>, <<"#", " ", CrossMark>>}
CorrectMarkers ==
    {<<"#", " ", "C", "O", "R", "R", "E", "C", "T">>, <<"#", " ", "G", "O", "O", "D">>, <<"#", " ", CheckMark>>}

\* How many lines of the preceding text are looked at: the "[-3:]".
LastLines == 3

\* "' '.join(preceding_text.strip().split('\n')[-3:]).lower()"
last_text(preceding_text) ==
    With(Lines(Strip(preceding_text)),
         LAMBDA ls : Lower(Join(SubSeq(ls, MaxOf({1, Len(ls) - LastLines + 1}), Len(ls)), <<" ">>)))

\* Some string of the sequence occurs in the text.
AnyIn(indicators, text) == \E i \in 1..Len(indicators) : IsSubstr(indicators[i], text)

\* What _is_correct_example returns once the preceding text has no indicator.
ByCode(code) ==
    IF \E m \in IncorrectMarkers : IsSubstr(m, code) THEN FALSE
    ELSE IF \E m \in CorrectMarkers : IsSubstr(m, code) THEN TRUE
    ELSE TRUE

\* An _is_correct_example that looks for the correct indicators first.
is_correct_example_correct_first(preceding_text, code) ==
    With(last_text(preceding_text),
         LAMBDA t :
            IF AnyIn(correct_indicators, t) THEN TRUE
            ELSE IF AnyIn(incorrect_indicators, t) THEN FALSE
            ELSE ByCode(code))

\* ContextParser._is_correct_example
is_correct_example(preceding_text, code) ==
    With(last_text(preceding_text),
         LAMBDA t :
            IF AnyIn(incorrect_indicators, t) THEN FALSE
            ELSE IF AnyIn(correct_indicators, t) THEN TRUE
            ELSE ByCode(code))

\* The index of the leftmost code block of the content, 0 when it has none.
FirstBlock(content) ==
    IF \E i \in 1..Len(content) : BlockAt(content, i)
    THEN CHOOSE i \in 1..Len(content) :
            /\ BlockAt(content, i)
            /\ \A j \in 1..(i - 1) : ~BlockAt(content, j)
    ELSE 0

\* The text _extract_content_and_examples returns: "''.join(text_parts)", the
\* content without its code blocks.
RECURSIVE text_content(_)
text_content(content) ==
    With(FirstBlock(content),
         LAMBDA i :
            IF i = 0 THEN content
            ELSE SubSeq(content, 1, i - 1)
                 \o text_content(From(content, Block(content, i).end)))

\* ContextParser._extract_content_and_examples: re.split cuts the content at
\* each code block, leftmost first; the text parts are joined with nothing
\* between them and each block gives one example.  The text part before a
\* block is what precedes it in what is left of the content.
RECURSIVE extract_content_and_examples(_)
extract_content_and_examples(content) ==
    IF FirstBlock(content) > 0
    THEN With(FirstBlock(content),
              LAMBDA i :
                 With(Block(content, i),
                      LAMBDA b :
                         With(extract_content_and_examples(From(content, b.end)),
                              LAMBDA rest :
                                 [text     |-> SubSeq(content, 1, i - 1) \o rest.text,
                                  examples |-> <<[code       |-> b.code,
                                                  language   |-> b.language,
                                                  is_correct |-> is_correct_example(
                                                                    SubSeq(content, 1, i - 1),
                                                                    b.code)]>>
                                               \o rest.examples])))
    ELSE [text |-> content, examples |-> <<>>]

\* re.sub(r"^[-*]\s*", "", text)
StripBullet(text) ==
    IF Len(text) > 0 /\ text[1] \in {"-", "*"}
    THEN LStrip(Tail(text))
    ELSE text

\* re.split(r"[.!?]\s+", text)[0]
FirstSentence(text) ==
    IF \E i \in 1..(Len(text) - 1) : text[i] \in {".", "!", "?"} /\ text[i + 1] \in Whitespace
    THEN SubSeq(text, 1,
                (CHOOSE i \in 1..(Len(text) - 1) :
                    /\ text[i] \in {".", "!", "?"} /\ text[i + 1] \in Whitespace
                    /\ \A j \in 1..(i - 1) :
                            ~(text[j] \in {".", "!", "?"} /\ text[j + 1] \in Whitespace)) - 1)
    ELSE text

\* "if len(title) > 60: title = title[:57] + '...'"
Truncate(title) ==
    IF Len(title) > MaxTitleLen
    THEN SubSeq(title, 1, TitleKeep) \o <<".", ".", ".">>
    ELSE title

\* ContextParser._extract_title
extract_title(text) == Truncate(Strip(FirstSentence(StripBullet(Strip(text)))))

\* ---------------------------------------------------------------------------
\* State
\* ---------------------------------------------------------------------------

VARIABLES
    \* SyncGenerator.sync()
    pc,         \* where sync() is: "idle", "parse", "transform", "validate", "write", "done"
    dry_run,    \* SyncGenerator.dry_run
    started,    \* the stages whose "Step n" header sync() has printed, in order
    returned,   \* the file maps the transformers have returned so far, in roster order
    all_files,  \* the merged file map
    written,    \* the files this run has written to disk, in order
    result,     \* what sync() did: "running", "true", "false", or "raised"
    \* Validator
    errors,     \* Validator.errors
    warnings,   \* Validator.warnings
    vfiles,     \* the file map validate_all is called with
    vpc,        \* where validate_all is: "idle", "loop", "returned", "raised"
    vidx,       \* the item of vfiles the loop is at
    vresult,    \* the value validate_all returned
    vcalls,     \* the calls of validate_all that are over: file map, lists, outcome
    \* ContextParser
    doc,        \* the lines of CONTEXT.md (ContextParser.content)
    ppc,        \* where parse() is: "idle", "loop", "returned"
    sections,   \* the sections parse() iterates over, in order
    sidx,       \* the section the loop is at
    rules,      \* the rules extracted so far
    tables,     \* the class attributes SECTION_PRIORITIES and SECTION_SCOPES
    calls,      \* the calls of parse() that have returned: document and rules
    \* CursorTransformer
    cpc,        \* where transform() is: "idle", "returned"
    cursor_files,   \* the file map transform() returned
    \* main() of sync-standards.py
    mpc,        \* where main() is: "idle", "sync", "exited"
    exit_code,  \* the exit status of the process, none while it runs
    context_exists,     \* context_path.exists()
    templates_exist     \* templates_dir.exists()

syncVars == <<pc, dry_run, started, returned, all_files, written, result>>

validatorVars == <<errors, warnings, vfiles, vpc, vidx, vresult, vcalls>>

parserVars == <<doc, ppc, sections, sidx, rules, tables, calls>>

cursorVars == <<cpc, cursor_files>>

mainVars == <<mpc, exit_code, context_exists, templates_exist>>

vars == <<syncVars, validatorVars, parserVars, cursorVars, mainVars>>

\* ---------------------------------------------------------------------------
\* parser.py: classification and rules
\* ---------------------------------------------------------------------------

\* ContextParser.SECTION_PRIORITIES, in the order of the dict
SECTION_PRIORITIES ==
    <<[key |-> <<"S", "e", "c", "u", "r", "i", "t", "y">>, value |-> 100],
      [key |-> <<"P", "r", "e", "-", "c", "o", "m", "m", "i", "t">>, value |-> 90],
      [key |-> <<"B", "a", "s", "h", " ", "S", "t", "a", "n", "d", "a", "r", "d", "s">>, value |-> 70],
      [key |-> <<"P", "y", "t", "h", "o", "n", " ", "S", "t", "a", "n", "d", "a", "r", "d", "s">>, value |-> 70],
      [key |-> <<"D", "e", "s", "i", "g", "n", " ", "P", "r", "i", "n", "c", "i", "p", "l", "e", "s">>, value |-> 60],
      [key |-> <<"Y", "A", "M", "L">>, value |-> 50],
      [key |-> <<"J", "S", "O", "N">>, value |-> 50],
      [key |-> <<"D", "o", "c", "u", "m", "e", "n", "t", "a", "t", "i", "o", "n">>, value |-> 40]>>

\* ContextParser.SECTION_SCOPES, in the order of the dict
SECTION_SCOPES ==
    <<[key |-> <<"B", "a", "s", "h", " ", "S", "t", "a", "n", "d", "a", "r", "d", "s">>,
       value |-> <<<<"*", ".", "s", "h">>, <<"*", ".", "b", "a", "s", "h">>>>],
      [key |-> <<"P", "y", "t", "h", "o", "n", " ", "S", "t", "a", "n", "d", "a", "r", "d", "s">>,
       value |-> <<<<"*", ".", "p", "y">>>>],
      [key |-> <<"Y", "A", "M", "L">>,
       value |-> <<<<"*", ".", "y", "a", "m", "l">>>>],
      [key |-> <<"J", "S", "O", "N">>,
       value |-> <<<<"*", ".", "j", "s", "o", "n">>>>]>>

\* tag_map of _get_tags, in the order of the dict
tag_map ==
    <<[key |-> <<"b", "a", "s", "h">>,
       value |-> <<<<"b", "a", "s", "h">>, <<"s", "h", "e", "l", "l">>, <<"s", "c", "r", "i", "p", "t">>>>],
      [key |-> <<"p", "y", "t", "h", "o", "n">>,
       value |-> <<<<"p", "y", "t", "h", "o", "n">>>>],
      [key |-> <<"s", "e", "c", "u", "r", "i", "t", "y">>,
       value |-> <<<<"s", "e", "c", "u", "r", "i", "t", "y">>, <<"s", "e", "c", "r", "e", "t">>, <<"c", "r", "e", "d", "e", "n", "t", "i", "a", "l">>>>],
      [key |-> <<"y", "a", "m", "l">>,
       value |-> <<<<"y", "a", "m", "l">>>>],
      [key |-> <<"j", "s", "o", "n">>,
       value |-> <<<<"j", "s", "o", "n">>>>],
      [key |-> <<"d", "o", "c", "u", "m", "e", "n", "t", "a", "t", "i", "o", "n">>,
       value |-> <<<<"d", "o", "c", "u", "m", "e", "n", "t", "a", "t", "i", "o", "n">>, <<"d", "o", "c">>>>]>>

\* The class attributes once the class body has run.
ClassTables == [priorities |-> SECTION_PRIORITIES, scopes |-> SECTION_SCOPES]

\* The priority of a section no key occurs in: "return 50".
DefaultPriority == 50

\* The scope of a section no key occurs in: "return ['all']".
DefaultScope == <<<<"a", "l", "l">>>>

\* "key.lower() in section.lower()"; a key longer than the section is not in it.
KeyIn(key, section) == Len(key) <= Len(section) /\ IsSubstr(Lower(key), Lower(section))

\* The first item of the table whose key occurs in the section, 0 if none:
\* where "for key, value in table.items(): if key.lower() in section.lower()"
\* returns.
FirstKeyIn(table, section) ==
    IF \E i \in 1..Len(table) : KeyIn(table[i].key, section)
    THEN CHOOSE i \in 1..Len(table) :
            /\ KeyIn(table[i].key, section)
            /\ \A j \in 1..(i - 1) : ~KeyIn(table[j].key, section)
    ELSE 0

\* A _get_priority that goes on to the last key that occurs in the section.
get_priority_last(section) ==
    IF \E i \in 1..Len(tables.priorities) : KeyIn(tables.priorities[i].key, section)
    THEN tables.priorities[CHOOSE i \in 1..Len(tables.priorities) :
            /\ KeyIn(tables.priorities[i].key, section)
            /\ \A j \in (i + 1)..Len(tables.priorities) :
                    ~KeyIn(tables.priorities[j].key, section)].value
    ELSE DefaultPriority

\* ContextParser._get_priority
get_priority(section) ==
    With(FirstKeyIn(tables.priorities, section),
         LAMBDA i : IF i > 0 THEN tables.priorities[i].value ELSE DefaultPriority)

\* A _get_scope that adds the globs of the section to the default scope.
get_scope_added(section) ==
    With(FirstKeyIn(tables.scopes, section),
         LAMBDA i : IF i > 0 THEN DefaultScope \o tables.scopes[i].value ELSE DefaultScope)

\* ContextParser._get_scope
get_scope(section) ==
    With(FirstKeyIn(tables.scopes, section),
         LAMBDA i : IF i > 0 THEN tables.scopes[i].value ELSE DefaultScope)

\* "any(keyword in section_lower for keyword in keywords)"
AnyKeyword(keywords, section_lower) ==
    \E k \in 1..Len(keywords) : IsSubstr(keywords[k], section_lower)

\* The loop of _get_tags over tag_map.items(), from item i on.
RECURSIVE TagsFrom(_, _)
TagsFrom(i, section_lower) ==
    IF i > Len(tag_map) THEN <<>>
    ELSE (IF AnyKeyword(tag_map[i].value, section_lower) THEN <<tag_map[i].key>> ELSE <<>>)
         \o TagsFrom(i + 1, section_lower)

\* A _get_tags that stops at the first tag it takes.
get_tags_one(section) ==
    With(TagsFrom(1, Lower(section)),
         LAMBDA tags : IF tags = <<>> THEN <<>> ELSE <<tags[1]>>)

\* ContextParser._get_tags
get_tags(section) == TagsFrom(1, Lower(section))

\* A _create_rule without "if not text_content.strip(): return None".
create_rule_unchecked(section, subsection, content, priority, scope, tags) ==
    With(extract_content_and_examples(content),
         LAMBDA e :
            <<[section    |-> section,
               subsection |-> subsection,
               title      |-> IF subsection # <<>> THEN subsection
                              ELSE extract_title(e.text),
               content    |-> Strip(e.text),
               examples   |-> e.examples,
               priority   |-> priority,
               scope      |-> scope,
               tags       |-> tags]>>)

\* ContextParser._create_rule, as the list of the rules it gives: none when
\* it returns None, else one.  subsection is empty for None.
create_rule(section, subsection, content, priority, scope, tags) ==
    With(extract_content_and_examples(content),
         LAMBDA e :
            IF Strip(e.text) = <<>> THEN <<>>
            ELSE <<[section    |-> section,
                    subsection |-> subsection,
                    title      |-> IF subsection # <<>> THEN subsection
                                   ELSE extract_title(e.text),
                    content    |-> Strip(e.text),
                    examples   |-> e.examples,
                    priority   |-> priority,
                    scope      |-> scope,
                    tags       |-> tags]>>)

\* The loop of _parse_section over subsections.items(), from item i on, with
\* the priority, scope and tags of the section in c.
RECURSIVE SubsectionRules(_, _, _, _)
SubsectionRules(section_title, subsections, i, c) ==
    IF i > Len(subsections) THEN <<>>
    ELSE create_rule(section_title, subsections[i].key, subsections[i].value,
                     c.priority, c.scope, c.tags)
         \o SubsectionRules(section_title, subsections, i + 1, c)

\* "priority = self._get_priority(section_title)", and so scope and tags.
Classification(section_title) ==
    [priority |-> get_priority(section_title),
     scope    |-> get_scope(section_title),
     tags     |-> get_tags(section_title)]

\* A _parse_section that takes every section as one rule.
parse_section_whole(section_title, section_content) ==
    With(Classification(section_title),
         LAMBDA c : create_rule(section_title, <<>>, section_content,
                                c.priority, c.scope, c.tags))

\* ContextParser._parse_section
parse_section(section_title, section_content) ==
    With(Classification(section_title),
         LAMBDA c :
            With(split_into_subsections(section_content),
                 LAMBDA subsections :
                    IF subsections # <<>>
                    THEN SubsectionRules(section_title, subsections, 1, c)
                    ELSE create_rule(section_title, <<>>, section_content,
                                     c.priority, c.scope, c.tags)))

\* ---------------------------------------------------------------------------
\* generator.py: SyncGenerator.sync()
\* ---------------------------------------------------------------------------

\* SyncGenerator.transformers, in insertion order.
Roster == <<"Cursor", "Claude", "GitHub Copilot", "Aider">>

\* Contents a transformer may give each output path: for the Markdown file a
\* clean one and one with an unclosed fence; for the hybrid file one whose
\* frontmatter lacks "globs" and one whose frontmatter is empty; for the YAML
\* file comments that hold a fence delimiter.
SampleContents(path) ==
    CASE path = "CLAUDE.md" -> {<<"# h", "">>, <<"~~~", "">>}
      [] path = ".cursor/rules/006_security.mdc" ->
            {<<"---", "priority: 1", "---", "">>, <<"---", "---", "">>}
      [] path = ".aider/.aider.conf.yml" -> {<<"# ~~~", "">>}

\* The output paths of the sample file maps, in the order a map lists them.
SamplePaths == <<"CLAUDE.md", ".cursor/rules/006_security.mdc", ".aider/.aider.conf.yml">>

\* The file maps over the given paths: any subset of them, each with one of
\* its sample contents.
RECURSIVE MapsOver(_)
MapsOver(paths) ==
    IF Len(paths) = 0 THEN {<<>>}
    ELSE LET rest == MapsOver(Tail(paths))
         IN  rest \cup {<<[key |-> paths[1], value |-> c]>> \o m :
                            c \in SampleContents(paths[1]), m \in rest}

\* The file maps transformer.transform(rules) may return.  CursorTransformer
\* returns one file per routing bucket in use, so any number of files; the
\* other transformers return "{self.OUTPUT_FILE: content}", one file.  Which
\* path a transformer writes is left open, so that two of them may collide.
TransformerOutputs(tool) ==
    IF tool = "Cursor" THEN MapsOver(SamplePaths)
    ELSE {m \in MapsOver(SamplePaths) : Len(m) = 1}

\* The state after SyncGenerator(...) is constructed: nothing has run.
SyncIdle ==
    /\ pc = "idle"
    /\ started = <<>>
    /\ returned = <<>>
    /\ all_files = <<>>
    /\ written = <<>>
    /\ result = "running"

\* The state after Validator() is constructed.
ValidatorIdle ==
    /\ errors = <<>>
    /\ warnings = <<>>
    /\ vfiles = <<>>
    /\ vpc = "idle"
    /\ vidx = 0
    /\ vresult = FALSE
    /\ vcalls = <<>>

\* The parser variables of a specification that does not run the parser.
ParserIdle ==
    /\ doc = <<>>
    /\ ppc = "idle"
    /\ sections = <<>>
    /\ sidx = 0
    /\ rules = <<>>
    /\ tables = ClassTables
    /\ calls = <<>>

\* The state before CursorTransformer.transform is called.
CursorIdle ==
    /\ cpc = "idle"
    /\ cursor_files = <<>>

\* The variables of main() in a specification that does not run it: both
\* paths exist and the process has not exited.
MainIdle ==
    /\ mpc = "idle"
    /\ exit_code = <<>>
    /\ context_exists = TRUE
    /\ templates_exist = TRUE

Init ==
    /\ dry_run \in BOOLEAN
    /\ SyncIdle
    /\ ValidatorIdle
    /\ ParserIdle
    /\ CursorIdle
    /\ MainIdle

\* sync() returns False or lets an exception out.
Stop(how) ==
    /\ pc' = "done"
    /\ result' = how

\* sync() is called and prints the header of step 1.
SyncStart ==
    /\ pc = "idle"
    /\ pc' = "parse"
    /\ started' = <<"parse">>
    /\ UNCHANGED <<dry_run, returned, all_files, written, result>>
    /\ UNCHANGED validatorVars

\* Step 1: self.parser.parse() returns the rules; the header of step 2.
ParseOk ==
    /\ pc = "parse"
    /\ pc' = "transform"
    /\ started' = Append(started, "transform")
    /\ UNCHANGED <<dry_run, returned, all_files, written, result>>
    /\ UNCHANGED validatorVars

\* Step 1: self.parser.parse() raises; sync() returns False.
ParseFail ==
    /\ pc = "parse"
    /\ Stop("false")
    /\ UNCHANGED <<dry_run, started, returned, all_files, written>>
    /\ UNCHANGED validatorVars

\* Step 2, one iteration: the next transformer of the roster returns files and
\* all_files.update(files) merges them; after the last one, the header of step 3.
TransformOk ==
    /\ pc = "transform"
    /\ Len(returned) < Len(Roster)
    /\ \E files \in TransformerOutputs(Roster[Len(returned) + 1]) :
        /\ returned' = Append(returned, files)
        /\ all_files' = Update(all_files, files)
    /\ IF Len(returned) + 1 = Len(Roster)
       THEN pc' = "validate" /\ started' = Append(started, "validate")
       ELSE UNCHANGED <<pc, started>>
    /\ UNCHANGED <<dry_run, written, result>>
    /\ UNCHANGED validatorVars

\* Step 2: the next transformer raises; sync() returns False.
TransformFail ==
    /\ pc = "transform"
    /\ Len(returned) < Len(Roster)
    /\ Stop("false")
    /\ UNCHANGED <<dry_run, started, returned, all_files, written>>
    /\ UNCHANGED validatorVars

\* A sync() that goes on to step 4 whatever validate_all returned.
AfterValidationUnchecked(v) ==
    IF v.raised THEN Stop("raised") /\ UNCHANGED started
    ELSE IF dry_run THEN Stop(IF v.result THEN "true" ELSE "false") /\ UNCHANGED started
    ELSE pc' = "write" /\ started' = Append(started, "write") /\ UNCHANGED result

\* What sync() does with the outcome v of validate_all: an exception leaves
\* sync(), False makes it return False, and on True a dry run prints its
\* summary and returns True while a real run prints the header of step 4.
AfterValidation(v) ==
    IF v.raised THEN Stop("raised") /\ UNCHANGED started
    ELSE IF ~v.result THEN Stop("false") /\ UNCHANGED started
    ELSE IF dry_run THEN Stop("true") /\ UNCHANGED started
    ELSE pc' = "write" /\ started' = Append(started, "write") /\ UNCHANGED result

\* Step 3: self.validator.validate_all(all_files), outside any try block.
Validate ==
    /\ pc = "validate"
    /\ \E v \in {validate_all(all_files)} :
        /\ vfiles' = all_files
        /\ errors' = v.errors
        /\ warnings' = v.warnings
        /\ vidx' = v.inspected
        /\ vpc' = IF v.raised THEN "raised" ELSE "returned"
        /\ vresult' = (~v.raised /\ v.result)
        /\ AfterValidation(v)
    /\ UNCHANGED vcalls
    /\ UNCHANGED <<dry_run, returned, all_files, written>>

\* Step 4, one iteration of _write_files: mkdir and write_text of the next item.
WriteFile ==
    /\ pc = "write"
    /\ Len(written) < Len(all_files)
    /\ written' = Append(written, all_files[Len(written) + 1])
    /\ UNCHANGED <<pc, dry_run, started, returned, all_files, result>>
    /\ UNCHANGED validatorVars

\* Step 4: mkdir or write_text of the next item raises; sync() returns False.
WriteFail ==
    /\ pc = "write"
    /\ Len(written) < Len(all_files)
    /\ Stop("false")
    /\ UNCHANGED <<dry_run, started, returned, all_files, written>>
    /\ UNCHANGED validatorVars

\* Step 4 is over: sync() prints the summary and returns True.
WriteDone ==
    /\ pc = "write"
    /\ Len(written) = Len(all_files)
    /\ Stop("true")
    /\ UNCHANGED <<dry_run, started, returned, all_files, written>>
    /\ UNCHANGED validatorVars

SyncNext ==
    \/ SyncStart
    \/ ParseOk
    \/ ParseFail
    \/ TransformOk
    \/ TransformFail
    \/ Validate
    \/ WriteFile
    \/ WriteFail
    \/ WriteDone

Next == SyncNext /\ UNCHANGED <<parserVars, cursorVars, mainVars>>

\* A run of sync() on a freshly constructed SyncGenerator.
Spec == Init /\ [][Next]_vars

\* ---------------------------------------------------------------------------
\* sync-standards.py: main()
\* ---------------------------------------------------------------------------

\* The state when main() is called: the two paths exist or not, and
\* "--dry-run" is on the command line or not.
InitM ==
    /\ dry_run \in BOOLEAN
    /\ SyncIdle
    /\ ValidatorIdle
    /\ ParserIdle
    /\ CursorIdle
    /\ mpc = "idle"
    /\ exit_code = <<>>
    /\ context_exists \in BOOLEAN
    /\ templates_exist \in BOOLEAN

\* "if not context_path.exists(): ... return 1" and "if not
\* templates_dir.exists(): ... return 1": sys.exit(1).
MainReject ==
    /\ mpc = "idle"
    /\ ~context_exists \/ ~templates_exist
    /\ mpc' = "exited"
    /\ exit_code' = <<1>>
    /\ UNCHANGED <<context_exists, templates_exist>>
    /\ UNCHANGED <<syncVars, validatorVars>>

\* Both paths exist: the generator is constructed and sync() is called.
MainRun ==
    /\ mpc = "idle"
    /\ context_exists
    /\ templates_exist
    /\ mpc' = "sync"
    /\ SyncStart
    /\ UNCHANGED <<exit_code, context_exists, templates_exist>>

\* A step of sync() under main().
MainStep ==
    /\ mpc = "sync"
    /\ \/ ParseOk
       \/ ParseFail
       \/ TransformOk
       \/ TransformFail
       \/ Validate
       \/ WriteFile
       \/ WriteFail
       \/ WriteDone
    /\ UNCHANGED mainVars

\* A main() that returns 0 whatever sync() did.
ExitStatusZero(how) == 0

\* The exit status after sync(): "return 0 if success else 1" when sync()
\* returned, and 1 when an exception left sync() and so main(), which the
\* interpreter reports with a traceback and status 1.
ExitStatus(how) ==
    CASE how = "true" -> 0
      [] how = "false" -> 1
      [] how = "raised" -> 1

\* sync() is over: "sys.exit(main())", or the exit on the exception.
MainExit ==
    /\ mpc = "sync"
    /\ pc = "done"
    /\ mpc' = "exited"
    /\ exit_code' = <<ExitStatus(result)>>
    /\ UNCHANGED <<context_exists, templates_exist>>
    /\ UNCHANGED <<syncVars, validatorVars>>

NextM ==
    /\ \/ MainReject
       \/ MainRun
       \/ MainStep
       \/ MainExit
    /\ UNCHANGED <<parserVars, cursorVars>>

\* One run of the command line.
SpecM == InitM /\ [][NextM]_vars

\* ---------------------------------------------------------------------------
\* validator.py: Validator.validate_all, one step per file
\* ---------------------------------------------------------------------------

\* The lines a generated file is made of: blank, the frontmatter delimiter,
\* the two recognised frontmatter keys, a fence delimiter, headings of level 1
\* and 3, a line with trailing whitespace and an overlong line.
ValidatorLines == {"", "---", "priority: 1", "globs: x", "~~~", "# h", "### h", "t ", "LONG"}

\* The texts of at most MaxLines lines.
ValidatorContents == UNION {[1..n -> ValidatorLines] : n \in 0..MaxLines}

\* Output paths, one per extension the validator tells apart.
ValidatorPaths == {"CLAUDE.md", ".cursor/rules/006_security.mdc", ".aider/.aider.conf.yml", "notes.txt"}

InitV ==
    /\ dry_run = FALSE
    /\ SyncIdle
    /\ ValidatorIdle
    /\ ParserIdle
    /\ CursorIdle
    /\ MainIdle

\* validate_all(files) is called: "self.errors = []; self.warnings = []".
VCall ==
    /\ vpc = "idle"
    /\ \E path \in ValidatorPaths, content \in ValidatorContents :
        vfiles' = <<[key |-> path, value |-> content]>>
    /\ errors' = <<>>
    /\ warnings' = <<>>
    /\ vidx' = 1
    /\ vpc' = "loop"
    /\ UNCHANGED vresult

\* One iteration of the loop: self._validate_file(filepath, content), which
\* appends to the lists and may raise.
VFile ==
    /\ vpc = "loop"
    /\ vidx <= Len(vfiles)
    /\ \E f \in {validate_file(vfiles[vidx].key, Text(vfiles[vidx].value))} :
        /\ errors' = errors \o f.errors
        /\ warnings' = warnings \o f.warnings
        /\ IF f.raised
           THEN vpc' = "raised" /\ UNCHANGED vidx
           ELSE vidx' = vidx + 1 /\ UNCHANGED vpc
    /\ UNCHANGED <<vfiles, vresult>>

\* The loop is over: "return len(self.errors) == 0".
VReturn ==
    /\ vpc = "loop"
    /\ vidx > Len(vfiles)
    /\ vresult' = validate_all_result(errors, warnings)
    /\ vpc' = "returned"
    /\ UNCHANGED <<errors, warnings, vfiles, vidx>>

NextV ==
    /\ \/ VCall
       \/ VFile
       \/ VReturn
    /\ UNCHANGED vcalls
    /\ UNCHANGED syncVars
    /\ UNCHANGED parserVars
    /\ UNCHANGED <<cursorVars, mainVars>>

\* One call of validate_all on a freshly constructed Validator.
SpecV == InitV /\ [][NextV]_vars

\* ---------------------------------------------------------------------------
\* parser.py: ContextParser.parse, one step per section
\* ---------------------------------------------------------------------------

\* The lines CONTEXT.md is made of: section headings plain and numbered;
\* subsection headings short and, numbered, overlong; prose of two sentences,
\* the first overlong; a blank line; a fence delimiter.
DocLines == {"## A", "## 1. B", "### x", "### 1.1 H", "P. b", "", "~~~"}

\* The documents of at most MaxDocLines lines.
Docs == UNION {[1..n -> DocLines] : n \in 0..MaxDocLines}

\* The state after ContextParser(context_path) is constructed: the file is read.
InitP ==
    /\ dry_run = FALSE
    /\ SyncIdle
    /\ ValidatorIdle
    /\ doc \in Docs
    /\ ppc = "idle"
    /\ sections = <<>>
    /\ sidx = 0
    /\ rules = <<>>
    /\ tables = ClassTables
    /\ calls = <<>>
    /\ CursorIdle
    /\ MainIdle

\* parse() is called: "rules = []; sections = self._split_into_sections()".
PCall ==
    /\ ppc = "idle"
    /\ sections' = split_into_sections(Text(doc))
    /\ sidx' = 1
    /\ rules' = <<>>
    /\ ppc' = "loop"
    /\ UNCHANGED <<doc, tables, calls>>

\* One iteration of the loop: "rules.extend(self._parse_section(...))".
PSection ==
    /\ ppc = "loop"
    /\ sidx <= Len(sections)
    /\ rules' = rules \o parse_section(sections[sidx].key, sections[sidx].value)
    /\ sidx' = sidx + 1
    /\ UNCHANGED <<doc, ppc, sections, tables, calls>>

\* The loop is over: "return rules".  The call joins the calls that have
\* returned.
PReturn ==
    /\ ppc = "loop"
    /\ sidx > Len(sections)
    /\ ppc' = "returned"
    /\ calls' = Append(calls, [doc |-> doc, rules |-> rules])
    /\ UNCHANGED <<doc, sections, sidx, rules, tables>>

NextP ==
    /\ \/ PCall
       \/ PSection
       \/ PReturn
    /\ UNCHANGED syncVars
    /\ UNCHANGED validatorVars
    /\ UNCHANGED <<cursorVars, mainVars>>

\* One call of parse() on a freshly constructed ContextParser.
SpecP == InitP /\ [][NextP]_vars

\* ---------------------------------------------------------------------------
\* parser.py: ContextParser.parse on documents whose titles are derived
\* ---------------------------------------------------------------------------

\* Lines of such a CONTEXT.md: a section heading; a subsection heading; a list
\* item of two sentences; prose that opens with emphasis; prose whose first
\* sentence is overlong; a sentence of exactly 60 characters; a blank line.
TitleLines == {"## A", "### x", "- Do a. b", "**b** c", "P. b", "Q", ""}

\* The most lines such a document has.
MaxTitleDocLines == 3

TitleDocs == UNION {[1..n -> TitleLines] : n \in 0..MaxTitleDocLines}

\* The state after ContextParser(context_path) is constructed on one of them.
InitT ==
    /\ dry_run = FALSE
    /\ SyncIdle
    /\ ValidatorIdle
    /\ doc \in TitleDocs
    /\ ppc = "idle"
    /\ sections = <<>>
    /\ sidx = 0
    /\ rules = <<>>
    /\ tables = ClassTables
    /\ calls = <<>>
    /\ CursorIdle
    /\ MainIdle

\* One call of parse() on a freshly constructed ContextParser.
SpecT == InitT /\ [][NextP]_vars

\* ---------------------------------------------------------------------------
\* parser.py: ContextParser.parse on documents with code examples
\* ---------------------------------------------------------------------------

\* Lines of prose: one with the indicator "incorrect", which holds "correct"
\* too, in capitals; one with the indicator "do this"; one with none.
ProseLines == {"Incorrect:", "do this", "t"}

\* Lines of code: with an incorrect marker, with a correct marker, with none.
CodeLines == {"# BAD", "# GOOD", "y"}

\* The pieces a section is made of: a line of prose, three lines of prose
\* without indicator, or a fenced code block of one line.
Pieces == ProseLines \cup {"ttt"} \cup CodeLines

\* The lines of a piece.
PieceLines(piece) ==
    IF piece \in CodeLines THEN <<"~~~", piece, "~~~">>
    ELSE IF piece = "ttt" THEN <<"t", "t", "t">>
    ELSE <<piece>>

RECURSIVE Flatten(_)
Flatten(pieces) ==
    IF pieces = <<>> THEN <<>>
    ELSE PieceLines(Head(pieces)) \o Flatten(Tail(pieces))

\* The most pieces the section has.
MaxPieces == 4

\* CONTEXT.md with one section of prose lines and code blocks in any order.
ExampleDocs ==
    {<<"## A">> \o Flatten(pieces) :
        pieces \in UNION {[1..n -> Pieces] : n \in 0..MaxPieces}}

\* The state after ContextParser(context_path) is constructed on one of them.
InitE ==
    /\ dry_run = FALSE
    /\ SyncIdle
    /\ ValidatorIdle
    /\ doc \in ExampleDocs
    /\ ppc = "idle"
    /\ sections = <<>>
    /\ sidx = 0
    /\ rules = <<>>
    /\ tables = ClassTables
    /\ calls = <<>>
    /\ CursorIdle
    /\ MainIdle

\* One call of parse() on a freshly constructed ContextParser.
SpecE == InitE /\ [][NextP]_vars

\* ---------------------------------------------------------------------------
\* parser.py: ContextParser.parse on documents whose sections are classified
\* ---------------------------------------------------------------------------

\* Headings of such a CONTEXT.md: of sections that the tables know, one of
\* them numbered and three of them with the keywords of several entries, and
\* of one that no table knows.
ClassHeadings ==
    {"## Security", "## 3. Bash Standards", "## JSON and YAML", "## Pre-commit security",
     "## Documentation of Python Standards", "## General"}

\* The lines of sections with these headings and a line of prose each.
RECURSIVE SectionsOf(_)
SectionsOf(headings) ==
    IF headings = <<>> THEN <<>>
    ELSE <<Head(headings), "t">> \o SectionsOf(Tail(headings))

\* The most sections such a document has.
MaxClassSections == 3

ClassDocs ==
    {SectionsOf(headings) :
        headings \in UNION {[1..n -> ClassHeadings] : n \in 0..MaxClassSections}}

\* The state after ContextParser(context_path) is constructed on one of them.
InitK ==
    /\ dry_run = FALSE
    /\ SyncIdle
    /\ ValidatorIdle
    /\ doc \in ClassDocs
    /\ ppc = "idle"
    /\ sections = <<>>
    /\ sidx = 0
    /\ rules = <<>>
    /\ tables = ClassTables
    /\ calls = <<>>
    /\ CursorIdle
    /\ MainIdle

\* One call of parse() on a freshly constructed ContextParser.
SpecK == InitK /\ [][NextP]_vars

\* ---------------------------------------------------------------------------
\* parser.py: ContextParser.parse on documents with numbered headings
\* ---------------------------------------------------------------------------

\* Lines of such a CONTEXT.md: section headings numbered "3.", "3.1" and
\* "1. 2."; subsection headings numbered "3.1" and "3."; a line of prose.
OrdinalLines ==
    {"## 3. Bash Standards", "## 3.1 S", "## 1. 2. X", "### 3.1 File Naming", "### 3. F", "t"}

\* The most lines such a document has.
MaxOrdinalDocLines == 4

OrdinalDocs == UNION {[1..n -> OrdinalLines] : n \in 0..MaxOrdinalDocLines}

\* The state after ContextParser(context_path) is constructed on one of them.
InitO ==
    /\ dry_run = FALSE
    /\ SyncIdle
    /\ ValidatorIdle
    /\ doc \in OrdinalDocs
    /\ ppc = "idle"
    /\ sections = <<>>
    /\ sidx = 0
    /\ rules = <<>>
    /\ tables = ClassTables
    /\ calls = <<>>
    /\ CursorIdle
    /\ MainIdle

\* One call of parse() on a freshly constructed ContextParser.
SpecO == InitO /\ [][NextP]_vars

\* ---------------------------------------------------------------------------
\* transformers/cursor.py: CursorTransformer
\* ---------------------------------------------------------------------------

\* CursorTransformer.FILE_MAPPING, in the order of the dict
FILE_MAPPING ==
    <<[key |-> <<"D", "e", "s", "i", "g", "n", " ", "P", "r", "i", "n", "c", "i", "p", "l", "e", "s">>,
       value |-> ".cursor/rules/001_workspace.mdc"],
      [key |-> <<"B", "a", "s", "h", " ", "S", "t", "a", "n", "d", "a", "r", "d", "s">>,
       value |-> ".cursor/rules/003_bash_standards.mdc"],
      [key |-> <<"P", "y", "t", "h", "o", "n", " ", "S", "t", "a", "n", "d", "a", "r", "d", "s">>,
       value |-> ".cursor/rules/004_python_standards.mdc"],
      [key |-> <<"Y", "A", "M", "L">>,
       value |-> ".cursor/rules/005_config_standards.mdc"],
      [key |-> <<"J", "S", "O", "N">>,
       value |-> ".cursor/rules/005_config_standards.mdc"],
      [key |-> <<"S", "e", "c", "u", "r", "i", "t", "y">>,
       value |-> ".cursor/rules/006_security.mdc"],
      [key |-> <<"P", "r", "e", "-", "c", "o", "m", "m", "i", "t">>,
       value |-> ".cursor/rules/007_precommit.mdc"],
      [key |-> <<"D", "o", "c", "u", "m", "e", "n", "t", "a", "t", "i", "o", "n">>,
       value |-> ".cursor/rules/008_documentation.mdc"]>>

\* The tags _get_output_file looks for.
SecurityTag == <<"s", "e", "c", "u", "r", "i", "t", "y">>
BashTag == <<"b", "a", "s", "h">>
PythonTag == <<"p", "y", "t", "h", "o", "n">>

\* A _get_output_file that looks for the tag "bash" before "security".
get_output_file_bash_first(rule) ==
    With(FirstKeyIn(FILE_MAPPING, rule.section),
         LAMBDA i :
            IF i > 0 THEN FILE_MAPPING[i].value
            ELSE IF BashTag \in {rule.tags[t] : t \in 1..Len(rule.tags)}
            THEN ".cursor/rules/003_bash_standards.mdc"
            ELSE IF SecurityTag \in {rule.tags[t] : t \in 1..Len(rule.tags)}
            THEN ".cursor/rules/006_security.mdc"
            ELSE IF PythonTag \in {rule.tags[t] : t \in 1..Len(rule.tags)}
            THEN ".cursor/rules/004_python_standards.mdc"
            ELSE ".cursor/rules/001_workspace.mdc")

\* CursorTransformer._get_output_file
get_output_file(rule) ==
    With(FirstKeyIn(FILE_MAPPING, rule.section),
         LAMBDA i :
            IF i > 0 THEN FILE_MAPPING[i].value
            ELSE IF SecurityTag \in {rule.tags[t] : t \in 1..Len(rule.tags)}
            THEN ".cursor/rules/006_security.mdc"
            ELSE IF BashTag \in {rule.tags[t] : t \in 1..Len(rule.tags)}
            THEN ".cursor/rules/003_bash_standards.mdc"
            ELSE IF PythonTag \in {rule.tags[t] : t \in 1..Len(rule.tags)}
            THEN ".cursor/rules/004_python_standards.mdc"
            ELSE ".cursor/rules/001_workspace.mdc")

\* self._render_template(self.TEMPLATE_NAME, rule=rule).  The template
\* cursor.mdc.j2 is an asset outside the source; what it renders of a rule
\* stands here as a heading with the title and the content of the rule.
render_template(rule) == <<"#", " ">> \o rule.title \o <<"\n">> \o rule.content

\* The separator of _generate_file_content: a horizontal rule between blank
\* lines.
RuleSeparator == <<"\n", "\n", "-", "-", "-", "\n", "\n">>

\* CursorTransformer._generate_file_content
generate_file_content(file_rules) ==
    Join([i \in 1..Len(file_rules) |-> render_template(file_rules[i])], RuleSeparator)

\* "files_rules[output_file].append(rule)" on the defaultdict(list)
AppendTo(files_rules, output_file, rule) ==
    IF output_file \in Keys(files_rules)
    THEN SetItem(files_rules, output_file, Append(Get(files_rules, output_file), rule))
    ELSE SetItem(files_rules, output_file, <<rule>>)

\* The first loop of transform, from rule i on.
RECURSIVE GroupRules(_, _, _)
GroupRules(rs, i, files_rules) ==
    IF i > Len(rs) THEN files_rules
    ELSE GroupRules(rs, i + 1, AppendTo(files_rules, get_output_file(rs[i]), rs[i]))

\* CursorTransformer.transform
cursor_transform(rs) ==
    With(GroupRules(rs, 1, <<>>),
         LAMBDA files_rules :
            [i \in 1..Len(files_rules) |->
                [key   |-> files_rules[i].key,
                 value |-> generate_file_content(files_rules[i].value)]])

\* Headings of the CONTEXT.md whose rules are routed: of sections that the
\* routing table knows, one of them by two keys; of sections routed by the
\* tags "security" and "bash" together and by the tag "python"; and of one
\* that nothing routes.
CursorHeadings ==
    {"## Security", "## Documentation of Python Standards", "## Secret shell", "## Python",
     "## General"}

\* The most sections such a document has.
MaxCursorSections == 3

CursorDocs ==
    {SectionsOf(headings) :
        headings \in UNION {[1..n -> CursorHeadings] : n \in 0..MaxCursorSections}}

\* The state after ContextParser(context_path) is constructed on one of them.
InitC ==
    /\ dry_run = FALSE
    /\ SyncIdle
    /\ ValidatorIdle
    /\ doc \in CursorDocs
    /\ ppc = "idle"
    /\ sections = <<>>
    /\ sidx = 0
    /\ rules = <<>>
    /\ tables = ClassTables
    /\ calls = <<>>
    /\ CursorIdle
    /\ MainIdle

\* transformer.transform(rules) is called with the rules parse() returned.
CTransform ==
    /\ ppc = "returned"
    /\ cpc = "idle"
    /\ cursor_files' = cursor_transform(rules)
    /\ cpc' = "returned"

NextC ==
    \/ /\ \/ PCall
          \/ PSection
          \/ PReturn
       /\ UNCHANGED cursorVars
       /\ UNCHANGED <<syncVars, validatorVars, mainVars>>
    \/ /\ CTransform
       /\ UNCHANGED <<syncVars, validatorVars, parserVars, mainVars>>

\* parse() and then CursorTransformer.transform on its rules.
SpecC == InitC /\ [][NextC]_vars

\* ---------------------------------------------------------------------------
\* transformers/claude.py, copilot.py, aider.py, and the roster of sync()
\* ---------------------------------------------------------------------------

\* Stands for the emoji of the heading in the header of CLAUDE.md.
TargetMark == "%"

\* ClaudeTransformer._build_header: the title, the rules and the heading of
\* the header; its lines of prose are left out.
ClaudeHeader ==
    <<"#", " ", "C", "l", "a", "u", "d", "e", "\n", "\n", "-", "-", "-", "\n", "\n",
      "#", "#", " ", TargetMark, " ", "Y", "o", "u", "r", " ", "R", "o", "l", "e", "\n", "\n",
      "-", "-", "-", "\n">>

\* CopilotTransformer._build_header: the title and the last line.
CopilotHeader ==
    <<"#", " ", "C", "o", "p", "i", "l", "o", "t", "\n", "\n", "Q", "u", "i", "c", "k", ".", "\n">>

\* AiderTransformer._build_header: the title and the last line, both comments.
AiderHeader ==
    <<"#", " ", "A", "i", "d", "e", "r", "\n", "\n", "#", " ", "k", "e", "y", "\n">>

\* "\n# === Standards from CONTEXT.md ===\n"
AiderBanner ==
    <<"\n", "#", " ", "=", "=", "=", " ", "S", "t", "a", "n", "d", "a", "r", "d", "s", " ",
      "=", "=", "=", "\n">>

\* The loop "for rule in rules" that fills the dict sections, from rule i on.
RECURSIVE GroupBySection(_, _, _)
GroupBySection(rs, i, secs) ==
    IF i > Len(rs) THEN secs
    ELSE GroupBySection(rs, i + 1, AppendTo(secs, rs[i].section, rs[i]))

\* The loop over sections.items(), from item i on: per section the heading,
\* marker and name, and the stripped rendering of each of its rules.
RECURSIVE SectionParts(_, _, _)
SectionParts(secs, i, marker) ==
    IF i > Len(secs) THEN <<>>
    ELSE <<marker \o secs[i].key>>
         \o [k \in 1..Len(secs[i].value) |-> Strip(render_template(secs[i].value[k]))]
         \o SectionParts(secs, i + 1, marker)

\* A transform of one heading per rule, whatever section came before.
claude_transform_ungrouped(rs) ==
    <<[key   |-> "CLAUDE.md",
       value |-> Join(<<RStrip(ClaudeHeader)>>
                      \o SectionParts([i \in 1..Len(rs) |->
                                            [key |-> rs[i].section, value |-> <<rs[i]>>]],
                                      1, <<"#", "#", " ">>),
                      <<"\n", "\n">>) \o <<"\n">>]>>

\* ClaudeTransformer.transform
claude_transform(rs) ==
    <<[key   |-> "CLAUDE.md",
       value |-> Join(<<RStrip(ClaudeHeader)>>
                      \o SectionParts(GroupBySection(rs, 1, <<>>), 1, <<"#", "#", " ">>),
                      <<"\n", "\n">>) \o <<"\n">>]>>

\* CopilotTransformer.transform
copilot_transform(rs) ==
    <<[key   |-> ".github/copilot-instructions.md",
       value |-> Join(<<RStrip(CopilotHeader)>>
                      \o SectionParts(GroupBySection(rs, 1, <<>>), 1, <<"#", " ">>),
                      <<"\n", "\n">>) \o <<"\n">>]>>

\* AiderTransformer.transform
aider_transform(rs) ==
    <<[key   |-> ".aider/.aider.conf.yml",
       value |-> Join(<<AiderHeader, AiderBanner>>
                      \o [i \in 1..Len(rs) |-> render_template(rs[i])],
                      <<"\n">>)]>>

\* A roster whose Aider transformer writes the file of the Claude one.
transform_colliding(tool, rs) ==
    CASE tool = "Cursor" -> cursor_transform(rs)
      [] tool = "Claude" -> claude_transform(rs)
      [] tool = "GitHub Copilot" -> copilot_transform(rs)
      [] tool = "Aider" -> <<[key |-> "CLAUDE.md", value |-> aider_transform(rs)[1].value]>>

\* transformer.transform(rules) of the transformer the roster names.
transform(tool, rs) ==
    CASE tool = "Cursor" -> cursor_transform(rs)
      [] tool = "Claude" -> claude_transform(rs)
      [] tool = "GitHub Copilot" -> copilot_transform(rs)
      [] tool = "Aider" -> aider_transform(rs)

\* A rule of the section and of the one-line content named, classified as the
\* parser classifies its section.
SampleRule(section, body) ==
    [section    |-> Chars(section),
     subsection |-> <<>>,
     title      |-> Chars(body),
     content    |-> Chars(body),
     examples   |-> <<>>,
     priority   |-> get_priority(Chars(section)),
     scope      |-> get_scope(Chars(section)),
     tags       |-> get_tags(Chars(section))]

\* The rules a caller may pass: two of one section, and one each of a section
\* routed by its tags and of one that nothing routes.
SampleRules ==
    {SampleRule("Security", "t"), SampleRule("Security", "y"),
     SampleRule("Secret shell", "t"), SampleRule("General", "do this")}

\* The most rules of the list passed.
MaxRules == 3

\* The state before step 2 of sync(): a list of rules, in any order, and no
\* transformer called yet.
InitR ==
    /\ dry_run = FALSE
    /\ SyncIdle
    /\ ValidatorIdle
    /\ doc = <<>>
    /\ ppc = "returned"
    /\ sections = <<>>
    /\ sidx = 0
    /\ tables = ClassTables
    /\ rules \in UNION {[1..n -> SampleRules] : n \in 0..MaxRules}
    /\ calls = <<>>
    /\ CursorIdle
    /\ MainIdle

\* One iteration of the loop of step 2: the next transformer of the roster
\* returns its files and all_files.update(files) merges them.
RunTransformer ==
    /\ Len(returned) < Len(Roster)
    /\ \E files \in {transform(Roster[Len(returned) + 1], rules)} :
        /\ returned' = Append(returned, files)
        /\ all_files' = Update(all_files, files)
    /\ UNCHANGED <<pc, dry_run, started, written, result>>
    /\ UNCHANGED <<validatorVars, parserVars, cursorVars, mainVars>>

NextR == RunTransformer

\* The four transformers of the roster, each called once on the same rules.
SpecR == InitR /\ [][NextR]_vars

\* ---------------------------------------------------------------------------
\* parser.py: the lines that bound sections and subsections
\* ---------------------------------------------------------------------------

\* Lines of a CONTEXT.md about its boundaries: headings of both levels with a
\* title and with nothing but a number, prose, and a line of two number signs
\* without the space of the marker.
BoundaryLines == {"## A", "## 1.", "### x", "### 1.1", "t", "##A"}

\* The most lines of such a document.
MaxBoundaryDocLines == 4

BoundaryDocs == UNION {[1..n -> BoundaryLines] : n \in 0..MaxBoundaryDocLines}

\* The state after ContextParser(context_path) is constructed on one of them.
InitB ==
    /\ dry_run = FALSE
    /\ SyncIdle
    /\ ValidatorIdle
    /\ doc \in BoundaryDocs
    /\ ppc = "idle"
    /\ sections = <<>>
    /\ sidx = 0
    /\ rules = <<>>
    /\ tables = ClassTables
    /\ calls = <<>>
    /\ CursorIdle
    /\ MainIdle

\* One call of parse() on a document of these lines.
SpecB == InitB /\ [][NextP]_vars

\* ---------------------------------------------------------------------------
\* validator.py: validate_all called again and again on one Validator
\* ---------------------------------------------------------------------------

\* The file maps of the repeated calls: a clean Markdown file; a hybrid file
\* without frontmatter, which is an error; a YAML file with trailing
\* whitespace and no final newline, which are warnings; a hybrid file with an
\* empty frontmatter, on which the validator raises; and the clean file with
\* the one that is an error after it.
ValidationMaps ==
    {<<[key |-> "CLAUDE.md", value |-> <<"# h", "">>]>>,
     <<[key |-> ".cursor/rules/006_security.mdc", value |-> <<"# h", "">>]>>,
     <<[key |-> ".aider/.aider.conf.yml", value |-> <<"t ">>]>>,
     <<[key |-> ".cursor/rules/006_security.mdc", value |-> <<"---", "---", "">>]>>,
     <<[key |-> "CLAUDE.md", value |-> <<"# h", "">>],
       [key |-> ".cursor/rules/006_security.mdc", value |-> <<"# h", "">>]>>}

\* The most calls of validate_all.
MaxValidations == 3

\* The state after Validator() is constructed.
InitW ==
    /\ dry_run = FALSE
    /\ SyncIdle
    /\ ValidatorIdle
    /\ ParserIdle
    /\ CursorIdle
    /\ MainIdle

\* A validate_all that keeps the lists of the call before.
AgainKeepingLists ==
    /\ vpc \in {"idle", "returned", "raised"}
    /\ Len(vcalls) < MaxValidations
    /\ vfiles' \in ValidationMaps
    /\ vidx' = 1
    /\ vpc' = "loop"
    /\ UNCHANGED <<errors, warnings, vresult, vcalls>>

\* validate_all(files) is called, for the first time or again after a call
\* that returned or raised: "self.errors = []; self.warnings = []".
Again ==
    /\ vpc \in {"idle", "returned", "raised"}
    /\ Len(vcalls) < MaxValidations
    /\ vfiles' \in ValidationMaps
    /\ errors' = <<>>
    /\ warnings' = <<>>
    /\ vidx' = 1
    /\ vpc' = "loop"
    /\ UNCHANGED <<vresult, vcalls>>

\* What a call that is over leaves behind.
CallOver(files, errs, warns, outcome) ==
    [files |-> files, errors |-> errs, warnings |-> warns, outcome |-> outcome]

NextW ==
    /\ \/ Again
       \/ /\ VFile
          /\ vcalls' = IF vpc' = "raised"
                       THEN Append(vcalls, CallOver(vfiles, errors', warnings', "raised"))
                       ELSE vcalls
       \/ /\ VReturn
          /\ vcalls' = Append(vcalls, CallOver(vfiles, errors, warnings,
                                               IF vresult' THEN "true" ELSE "false"))
    /\ UNCHANGED <<syncVars, parserVars, cursorVars, mainVars>>

\* Calls of validate_all, one after another, on one Validator.
SpecW == InitW /\ [][NextW]_vars

\* ---------------------------------------------------------------------------
\* parser.py: headings that give the same title
\* ---------------------------------------------------------------------------

\* Headings of a CONTEXT.md of which some give the same title: of a section
\* without and with a number, of another section, of a subsection without and
\* with a number, and of a subsection of nothing but a number.
RepeatedHeadings == {"## A", "## 1. B", "## B", "### x", "### 1.1 x", "### 1.1"}

\* The line under a heading.
BodyLines == {"t", "y"}

\* The most headings of such a document.
MaxHeadings == 3

\* The documents of headings with one line under each.
RepeatedTitleDocs ==
    {[i \in 1..(2 * n) |-> IF i % 2 = 1 THEN h[(i + 1) \div 2] ELSE b[i \div 2]] :
        <<n, h, b>> \in UNION {{n} \X [1..n -> RepeatedHeadings] \X [1..n -> BodyLines] :
                                    n \in 0..MaxHeadings}}

\* The state after ContextParser(context_path) is constructed on one of them.
InitU ==
    /\ dry_run = FALSE
    /\ SyncIdle
    /\ ValidatorIdle
    /\ doc \in RepeatedTitleDocs
    /\ ppc = "idle"
    /\ sections = <<>>
    /\ sidx = 0
    /\ rules = <<>>
    /\ tables = ClassTables
    /\ calls = <<>>
    /\ CursorIdle
    /\ MainIdle

\* One call of parse() on a document of these headings.
SpecU == InitU /\ [][NextP]_vars

\* ---------------------------------------------------------------------------
\* parser.py: parse() called again and again, with other calls in between
\* ---------------------------------------------------------------------------

\* The CONTEXT.md files of the repeated calls: one of a section with a scope of
\* its own, one of two sections, one of a section no table knows.
RepeatDocs ==
    {SectionsOf(<<"## 3. Bash Standards">>),
     SectionsOf(<<"## Security", "## General">>),
     SectionsOf(<<"## General">>)}

\* The most calls of parse().
MaxCalls == 3

\* The state after ContextParser(context_path) is constructed on one of them.
InitD ==
    /\ dry_run = FALSE
    /\ SyncIdle
    /\ ValidatorIdle
    /\ doc \in RepeatDocs
    /\ ppc = "idle"
    /\ sections = <<>>
    /\ sidx = 0
    /\ rules = <<>>
    /\ tables = ClassTables
    /\ calls = <<>>
    /\ CursorIdle
    /\ MainIdle

\* parse() is about to be called again: on the same parser, which has kept
\* the content it read, or on a parser freshly constructed on a document.
Reparse ==
    /\ ppc = "returned"
    /\ Len(calls) < MaxCalls
    /\ doc' \in RepeatDocs
    /\ ppc' = "idle"
    /\ UNCHANGED <<sections, sidx, rules, tables, calls>>

\* A transform that adds a glob to the scope of every rule: the scope of a
\* rule is the very list of SECTION_SCOPES, which so grows.
TransformGrowingScope ==
    /\ ppc = "returned"
    /\ cursor_files' = cursor_transform(rules)
    /\ cpc' = "returned"
    /\ tables' =
        [tables EXCEPT !.scopes =
            [i \in 1..Len(tables.scopes) |->
                IF \E k \in 1..Len(rules) : rules[k].scope = tables.scopes[i].value
                THEN [key   |-> tables.scopes[i].key,
                      value |-> Append(tables.scopes[i].value, <<"*">>)]
                ELSE tables.scopes[i]]]

\* transformer.transform(rules) is called on the rules parse() returned,
\* any number of times; it reads the rules and leaves the tables alone.
Transform ==
    /\ ppc = "returned"
    /\ cursor_files' = cursor_transform(rules)
    /\ cpc' = "returned"
    /\ tables' = tables

\* validate_all is called on a file map, any number of times.
ValidateSome ==
    \E files \in {m \in MapsOver(SamplePaths) : Len(m) = 1} :
        \E v \in {validate_all(files)} :
            /\ vfiles' = files
            /\ errors' = v.errors
            /\ warnings' = v.warnings
            /\ vidx' = v.inspected
            /\ vpc' = IF v.raised THEN "raised" ELSE "returned"
            /\ vresult' = (~v.raised /\ v.result)
            /\ vcalls' = vcalls

NextD ==
    \/ /\ \/ PCall
          \/ PSection
          \/ PReturn
          \/ Reparse
       /\ UNCHANGED <<syncVars, validatorVars, cursorVars, mainVars>>
    \/ /\ Transform
       /\ UNCHANGED <<doc, ppc, sections, sidx, rules, calls>>
       /\ UNCHANGED <<syncVars, validatorVars, mainVars>>
    \/ /\ ValidateSome
       /\ UNCHANGED <<syncVars, parserVars, cursorVars, mainVars>>

\* Calls of parse(), with calls of transform and validate_all in between.
SpecD == InitD /\ [][NextD]_vars

\* ---------------------------------------------------------------------------
\* Properties of sync()
\* ---------------------------------------------------------------------------

\* The elements of a sequence.
Range(seq) == {seq[i] : i \in 1..Len(seq)}

\* The stages of sync(), in the order of its step headers.
StageOrder == <<"parse", "transform", "validate", "write">>

\* C1: when a run of sync() has failed (it returned False or let an exception
\* out), that run has written no file.
C1_FailingRunWritesNothing ==
    (pc = "done" /\ result # "true") => written = <<>>

\* C2: the stages start in the order parse, transform, validate, write, each
\* at most once; nothing of a stage exists before that stage has started; and
\* the write stage starts, and so the first file is written, only after every
\* transformer of the roster has returned and validate_all has returned true
\* on the complete merged file map.
C2_StagesInOrder ==
    /\ \E n \in 0..Len(StageOrder) : started = SubSeq(StageOrder, 1, n)
    /\ "transform" \notin Range(started) => returned = <<>>
    /\ "validate" \notin Range(started) => vpc = "idle"
    /\ "write" \notin Range(started) => written = <<>>
    /\ "validate" \in Range(started) => Len(returned) = Len(Roster)
    /\ "write" \in Range(started) =>
            /\ vpc = "returned"
            /\ vresult
            /\ errors = <<>>
            /\ vfiles = all_files
            /\ vidx = Len(all_files) + 1

\* C2's case: a real run has written its first file, with more to write.
C2_Witness ==
    /\ Len(written) = 1
    /\ Len(all_files) > 1
    /\ warnings # <<>>

\* C3: the merged file map has exactly the paths some transformer returned,
\* each once, and the content of each path is the one returned by the last
\* transformer, in roster order, that returned the path.
C3_LaterTransformerWins ==
    /\ Keys(all_files) = UNION {Keys(returned[i]) : i \in 1..Len(returned)}
    /\ Cardinality(Keys(all_files)) = Len(all_files)
    /\ \A i \in 1..Len(returned) : \A path \in Keys(returned[i]) :
            (\A j \in (i + 1)..Len(returned) : path \notin Keys(returned[j]))
                => Get(all_files, path) = Get(returned[i], path)

\* C3's case: all transformers have returned, two of them the same path with
\* different contents, and another path came from one transformer only.
C3_Witness ==
    /\ Len(returned) = Len(Roster)
    /\ \E i, j \in 1..Len(returned) : \E path \in Keys(returned[i]) \cap Keys(returned[j]) :
            /\ i < j
            /\ Get(returned[i], path) # Get(returned[j], path)
    /\ \E i \in 1..Len(returned) : \E path \in Keys(returned[i]) :
            \A j \in 1..Len(returned) : j # i => path \notin Keys(returned[j])

\* ---------------------------------------------------------------------------
\* Properties of validate_all
\* ---------------------------------------------------------------------------

\* The file has an odd number of fence delimiters.
OddFences(file) == CountOcc(Text(file.value), Fence) % 2 = 1

\* The error list names the file together with "Unclosed code fence".
FenceErrorFor(file) == Entry(file.key, 0, "Unclosed code fence") \in Range(errors)

C6_NeverRaises == vpc # "raised"

\* What "---" cuts a hybrid file into: content.split("---", 2).
MdcParts(file) == Split(Text(file.value), <<"-", "-", "-">>, 2)

\* The file has a frontmatter/body split.
MdcIsSplit(file) ==
    /\ StartsWith(Text(file.value), <<"-", "-", "-">>)
    /\ Len(MdcParts(file)) >= 3

\* The recognised keys the parsed frontmatter lacks.
MissingKeys(metadata) ==
    {key \in {<<"p", "r", "i", "o", "r", "i", "t", "y">>, <<"g", "l", "o", "b", "s">>} :
        metadata.kind # "map" \/ key \notin metadata.keys}

\* The entries of a list that are about the file and hold one of the messages.
EntriesWith(list, file, msgs) ==
    SelectSeq(list, LAMBDA e : e.file = file.key /\ e.msg \in msgs)

\* What C7 asks of the lists once validate_all is done with a hybrid file.
MdcRulesHold(file, metadata) ==
    /\ vpc = "returned"
    /\ ~StartsWith(Text(file.value), <<"-", "-", "-">>) =>
            Entry(file.key, 0, "Missing YAML frontmatter") \in Range(errors)
    /\ (StartsWith(Text(file.value), <<"-", "-", "-">>) /\ Len(MdcParts(file)) < 3) =>
            Entry(file.key, 0, "Invalid frontmatter structure") \in Range(errors)
    /\ (MdcIsSplit(file) /\ metadata.kind = "error") =>
            Entry(file.key, 0, "Invalid frontmatter YAML") \in Range(errors)
    /\ (MdcIsSplit(file) /\ metadata.kind # "error") =>
            /\ Len(EntriesWith(warnings, file,
                        {"Missing 'priority' in frontmatter", "Missing 'globs' in frontmatter"}))
                    = Cardinality(MissingKeys(metadata))
            /\ Len(EntriesWith(errors, file,
                        {"Missing YAML frontmatter", "Invalid frontmatter structure",
                         "Invalid frontmatter YAML"})) = 0
    /\ MdcIsSplit(file) =>
            (CountOcc(MdcParts(file)[3], Fence) % 2 = 1) <=> FenceErrorFor(file)

\* C7: once validate_all is done with a hybrid (.mdc) file, it has returned,
\* and: content not starting with "---" gave an error; content with fewer than
\* two delimiters gave an error; frontmatter that does not parse gave an
\* error; frontmatter that parses gave one warning for each of "priority" and
\* "globs" it lacks and no frontmatter error; and the body of a split file was
\* checked for fences.
C7_MdcFrontmatterRules ==
    (vpc \in {"returned", "raised"} /\ Suffix(vfiles[1].key) = <<".", "m", "d", "c">>) =>
        MdcRulesHold(vfiles[1],
                     IF MdcIsSplit(vfiles[1]) THEN YamlLoad(MdcParts(vfiles[1])[2])
                     ELSE [kind |-> "error", keys |-> {}])

\* ---------------------------------------------------------------------------
\* Properties of parse()
\* ---------------------------------------------------------------------------

\* Line i of the document starts a section.
IsSectionLine(i) == StartsWith(Chars(doc[i]), Marker(2))

\* Line i of the document starts a subsection.
IsSubsectionLine(i) == StartsWith(Chars(doc[i]), Marker(3))

\* The last line of the section that starts at line i.
SectionEnd(i) ==
    IF \E j \in (i + 1)..Len(doc) : IsSectionLine(j)
    THEN MinOf({j \in (i + 1)..Len(doc) : IsSectionLine(j)}) - 1
    ELSE Len(doc)

\* The subsection headings of the section that starts at line i.
SubsectionLines(i) == {j \in (i + 1)..SectionEnd(i) : IsSubsectionLine(j)}

\* The last line of the subsection that starts at line j of the section that
\* starts at line i.
SubsectionEnd(i, j) ==
    IF \E k \in SubsectionLines(i) : k > j
    THEN MinOf({k \in SubsectionLines(i) : k > j}) - 1
    ELSE SectionEnd(i)

\* The number of rules C8 gives the section that starts at line i.
ClaimedRules(i) ==
    IF SubsectionLines(i) = {} THEN 1 ELSE Cardinality(SubsectionLines(i))

\* The sum of ClaimedRules over the sections that start at line i or later.
RECURSIVE ClaimedRulesFrom(_)
ClaimedRulesFrom(i) ==
    IF i > Len(doc) THEN 0
    ELSE (IF IsSectionLine(i) THEN ClaimedRules(i) ELSE 0) + ClaimedRulesFrom(i + 1)

\* The prose of lines from..to of the document is blank once its code blocks
\* are removed.
BlankProse(from, to) ==
    Strip(text_content(Text(SubSeq(doc, from, to)))) = <<>>

\* The headings of the document have non-empty titles, distinct among the
\* sections and distinct among the subsections of a section, and every
\* section without subsections and every subsection has prose.
WellFormed ==
    /\ \A i \in 1..Len(doc) : IsSectionLine(i) =>
            /\ HeadingTitle(2, Chars(doc[i])) # <<>>
            /\ \A j \in 1..Len(doc) :
                    (IsSectionLine(j) /\ j # i)
                        => HeadingTitle(2, Chars(doc[j])) # HeadingTitle(2, Chars(doc[i]))
            /\ SubsectionLines(i) = {} => ~BlankProse(i + 1, SectionEnd(i))
            /\ \A j \in SubsectionLines(i) :
                    /\ HeadingTitle(3, Chars(doc[j])) # <<>>
                    /\ \A k \in SubsectionLines(i) :
                            k # j => HeadingTitle(3, Chars(doc[k])) # HeadingTitle(3, Chars(doc[j]))
                    /\ ~BlankProse(j + 1, SubsectionEnd(i, j))

\* The number of rules of the section with the title.
RulesOf(title) == Cardinality({k \in 1..Len(rules) : rules[k].section = title})

\* C8 as stated: parse() returns one Rule for each section without
\* subsections and N for each section with N subsections, in all the sum of
\* these numbers.
C8_RuleCount ==
    ppc = "returned" => Len(rules) = ClaimedRulesFrom(1)

\* C8, with its conditions: parse() returns at most that many rules, and
\* exactly that many, section by section and in all, for a document whose
\* titles are non-empty and distinct and whose sections and subsections all
\* have prose.
C8_RuleCountWellFormed ==
    ppc = "returned" =>
        /\ Len(rules) <= ClaimedRulesFrom(1)
        /\ WellFormed =>
                /\ Len(rules) = ClaimedRulesFrom(1)
                /\ \A i \in 1..Len(doc) : IsSectionLine(i) =>
                        RulesOf(HeadingTitle(2, Chars(doc[i]))) = ClaimedRules(i)

\* C8's case: parse() returned on a well-formed document with a section of
\* two subsections.
C8_Witness ==
    /\ ppc = "returned"
    /\ WellFormed
    /\ \E i \in 1..Len(doc) : IsSectionLine(i) /\ Cardinality(SubsectionLines(i)) = 2

\* The pieces of a parsed section that _create_rule is called on: its
\* subsections, or the section itself when it has none.
Leaves(section) ==
    With(split_into_subsections(section.value),
         LAMBDA subsections :
            IF subsections # <<>> THEN subsections
            ELSE << [key |-> <<>>, value |-> section.value] >>)

\* The prose of a piece, without its code blocks, is blank.
BlankLeaf(leaf) == Strip(text_content(leaf.value)) = <<>>

\* Among the pieces of a parsed section, those with blank prose are the ones
\* no rule comes from.
RulesOnlyFromProse(section, leaves) ==
    \A l \in 1..Len(leaves) :
        BlankLeaf(leaves[l])
        <=> ~\E k \in 1..Len(rules) :
                /\ rules[k].section = section.key
                /\ rules[k].subsection = leaves[l].key

\* C9: a section or subsection gives parse() a rule exactly when its prose is
\* not blank once the code blocks are removed; and the content of every rule
\* is non-empty and has no whitespace at either end.
C9_NoRuleFromBlankProse ==
    ppc = "returned" =>
        /\ \A k \in 1..Len(rules) :
                /\ rules[k].content # <<>>
                /\ rules[k].content[1] \notin Whitespace
                /\ rules[k].content[Len(rules[k].content)] \notin Whitespace
        /\ \A s \in 1..Len(sections) :
                With(Leaves(sections[s]), LAMBDA leaves : RulesOnlyFromProse(sections[s], leaves))

\* The prose of a piece is only code blocks and blank lines.
OnlyCode(leaf) == BlankLeaf(leaf) /\ IsSubstr(Fence, leaf.value)

\* C9's case: parse() returned rules for a document in which the prose of a
\* section or subsection is only a code block and blank lines.
C9_Witness ==
    /\ ppc = "returned"
    /\ rules # <<>>
    /\ \E s \in 1..Len(sections) :
            With(Leaves(sections[s]),
                 LAMBDA leaves : \E l \in 1..Len(leaves) : OnlyCode(leaves[l]))

\* C10: every rule parse() returns has a title of at most 60 characters.
C10_TitleAtMost60 ==
    ppc = "returned" => \A k \in 1..Len(rules) : Len(rules[k].title) <= MaxTitleLen


\* ---------------------------------------------------------------------------
\* Properties of the derived titles
\* ---------------------------------------------------------------------------

\* The text is a list item: a bullet marker "-" or "*" and whitespace after it.
IsListItem(text) == Len(text) >= 2 /\ text[1] \in {"-", "*"} /\ text[2] \in Whitespace

\* The text without the bullet marker of a list item.
WithoutBullet(text) == IF IsListItem(text) THEN LStrip(From(text, 2)) ELSE text

\* A title cut to 60 characters: the first 57 and "...".
Shortened(title) ==
    IF Len(title) > MaxTitleLen
    THEN SubSeq(title, 1, TitleKeep) \o <<".", ".", ".">>
    ELSE title

\* The title the prose of a rule without subsection is to have: its first
\* sentence, without a leading bullet marker, cut when longer than 60.
TitleOfProse(prose) == Shortened(Strip(WithoutBullet(FirstSentence(prose))))

\* C11: the title of a rule without subsection is the first sentence of its
\* prose with a leading bullet marker removed; when that is longer than 60
\* characters the title is its first 57 characters and "...", 60 characters in
\* all, else it is that sentence unchanged.
C11_TitleIsFirstSentence ==
    ppc = "returned" =>
        \A k \in 1..Len(rules) :
            rules[k].subsection = <<>> => rules[k].title = TitleOfProse(rules[k].content)

\* What C11 says of the lengths alone: a derived title is the bulletless first
\* sentence when that has at most 60 characters and else has exactly 60
\* characters, the last three of them "...".
C11_DerivedTitleLength ==
    ppc = "returned" =>
        \A k \in 1..Len(rules) :
            rules[k].subsection = <<>> =>
                With(Strip(FirstSentence(StripBullet(rules[k].content))),
                     LAMBDA sentence :
                        IF Len(sentence) <= MaxTitleLen
                        THEN rules[k].title = sentence
                        ELSE /\ Len(rules[k].title) = MaxTitleLen
                             /\ EndsWith(rules[k].title, <<".", ".", ".">>)
                             /\ SubSeq(rules[k].title, 1, TitleKeep) = SubSeq(sentence, 1, TitleKeep))

\* The prose of a rule without subsection opens with "*" or "-" and no
\* whitespace after it, so with no list item.
C11_EmphasisCase ==
    /\ ppc = "returned"
    /\ \E k \in 1..Len(rules) :
            /\ rules[k].subsection = <<>>
            /\ rules[k].content[1] \in {"-", "*"}
            /\ ~IsListItem(rules[k].content)

\* ---------------------------------------------------------------------------
\* Properties of the code examples
\* ---------------------------------------------------------------------------

\* The line of the document that is its n-th fence delimiter.
NthFence(d, n) ==
    CHOOSE i \in 1..Len(d) :
        d[i] = "~~~" /\ Cardinality({j \in 1..i : d[j] = "~~~"}) = n

\* The number of code blocks of a document whose fences pair up.
BlockCount(d) == Cardinality({i \in 1..Len(d) : d[i] = "~~~"}) \div 2

\* The lines of prose right before the k-th code block, back to the block or
\* the heading before them, and of these the last three at most.
ProseBefore(d, k) ==
    With(NthFence(d, 2 * k - 1),
         LAMBDA open :
            With(IF k = 1 THEN 2 ELSE NthFence(d, 2 * k - 2) + 1,
                 LAMBDA first : {i \in MaxOf({first, open - LastLines})..(open - 1) : TRUE}))

\* One of the words occurs in one of these lines of the document, in any case
\* of letters.
WordIn(d, at, words) ==
    \E i \in at : \E w \in 1..Len(words) : IsSubstr(words[w], Lower(Chars(d[i])))

\* One of the markers occurs in the code of the k-th block.
MarkerIn(d, k, markers) ==
    \E m \in markers : IsSubstr(m, Chars(d[NthFence(d, 2 * k - 1) + 1]))

\* Whether the k-th example of the document is to count as correct.
ExpectedCorrect(d, k) ==
    IF WordIn(d, ProseBefore(d, k), incorrect_indicators) THEN FALSE
    ELSE IF WordIn(d, ProseBefore(d, k), correct_indicators) THEN TRUE
    ELSE IF MarkerIn(d, k, IncorrectMarkers) THEN FALSE
    ELSE IF MarkerIn(d, k, CorrectMarkers) THEN TRUE
    ELSE TRUE

\* C12: an example is incorrect when a negative indicator occurs in the last
\* lines of the prose right before its block, whatever else occurs; else it is
\* correct when a positive indicator occurs there; else it is incorrect when
\* its code has a WRONG or BAD marker and correct when it has a CORRECT or
\* GOOD marker; else it is correct.
C12_ExamplePrecedence ==
    (ppc = "returned" /\ rules # <<>>) =>
        /\ Len(rules[1].examples) = BlockCount(doc)
        /\ \A k \in 1..Len(rules[1].examples) :
                rules[1].examples[k].is_correct = ExpectedCorrect(doc, k)

\* C12's cases together: parse() returned a rule with an example that is
\* incorrect by the prose before it though that prose has a positive indicator
\* too and its code a GOOD marker, and with an example that no prose decides
\* and that is incorrect by the marker in its code.
C12_Witness ==
    /\ ppc = "returned"
    /\ rules # <<>>
    /\ \E k \in 1..Len(rules[1].examples) :
            /\ WordIn(doc, ProseBefore(doc, k), incorrect_indicators)
            /\ WordIn(doc, ProseBefore(doc, k), correct_indicators)
            /\ MarkerIn(doc, k, CorrectMarkers)
            /\ ~rules[1].examples[k].is_correct
    /\ \E k \in 1..Len(rules[1].examples) :
            /\ ~WordIn(doc, ProseBefore(doc, k), incorrect_indicators)
            /\ ~WordIn(doc, ProseBefore(doc, k), correct_indicators)
            /\ MarkerIn(doc, k, IncorrectMarkers)
            /\ ~rules[1].examples[k].is_correct

\* ---------------------------------------------------------------------------
\* Properties of the classification
\* ---------------------------------------------------------------------------

\* The word is a substring of the title when the case of letters is ignored.
OccursIgnoringCase(word, title) ==
    \E i \in 1..(Len(title) - Len(word) + 1) :
        \A k \in 1..Len(word) : LowerChar(title[i + k - 1]) = LowerChar(word[k])

\* The entries of a table whose keyword occurs in the title.
Hits(table, title) == {i \in 1..Len(table) : OccursIgnoringCase(table[i].key, title)}

\* The word "security".
SecurityWord == <<"s", "e", "c", "u", "r", "i", "t", "y">>

\* C13: the priority of a rule is the value of the first entry of the priority
\* table whose keyword occurs in the title of its section, case ignored, and
\* 50 when there is none; it is 100 when the title has "Security" in it; and
\* it lies in 0..100.
C13_PriorityFirstMatch ==
    \A k \in 1..Len(rules) :
        With(Hits(SECTION_PRIORITIES, rules[k].section),
             LAMBDA hits :
                /\ hits = {} => rules[k].priority = 50
                /\ hits # {} => rules[k].priority = SECTION_PRIORITIES[MinOf(hits)].value
                /\ OccursIgnoringCase(SecurityWord, rules[k].section) => rules[k].priority = 100
                /\ rules[k].priority \in 0..100)

\* C13's cases: parse() returned a rule of a section whose title has the
\* keywords of two entries of different value, and a rule of a section whose
\* title has none.
C13_Witness ==
    /\ ppc = "returned"
    /\ \E k \in 1..Len(rules) :
            With(Hits(SECTION_PRIORITIES, rules[k].section),
                 LAMBDA hits :
                    \E i \in hits : \E j \in hits :
                        /\ i < j
                        /\ SECTION_PRIORITIES[i].value # SECTION_PRIORITIES[j].value
                        /\ rules[k].priority = SECTION_PRIORITIES[i].value)
    /\ \E k \in 1..Len(rules) :
            /\ Hits(SECTION_PRIORITIES, rules[k].section) = {}
            /\ rules[k].priority = 50

\* The scope "all".
AllScope == <<"a", "l", "l">>

\* The title "Bash Standards" and its globs.
BashStandards == <<"B", "a", "s", "h", " ", "S", "t", "a", "n", "d", "a", "r", "d", "s">>
BashGlobs == {<<"*", ".", "s", "h">>, <<"*", ".", "b", "a", "s", "h">>}

\* C14: the scope of a rule is not empty; it is "all" alone when no keyword of
\* the scope table occurs in the title of its section, case ignored, and else
\* the globs of the first entry whose keyword does; "all" is never among
\* globs; and the scope of a section titled "Bash Standards" is "*.sh" and
\* "*.bash".
C14_ScopeAllOrGlobs ==
    \A k \in 1..Len(rules) :
        With(Hits(SECTION_SCOPES, rules[k].section),
             LAMBDA hits :
                /\ rules[k].scope # <<>>
                /\ hits = {} => rules[k].scope = <<AllScope>>
                /\ hits # {} => rules[k].scope = SECTION_SCOPES[MinOf(hits)].value
                /\ AllScope \in Range(rules[k].scope) => Range(rules[k].scope) = {AllScope}
                /\ rules[k].section = BashStandards => Range(rules[k].scope) = BashGlobs)

\* C14's cases: parse() returned a rule of the section "Bash Standards", a
\* rule of a section whose title has the keywords of two entries, and a rule
\* whose scope is "all".
C14_Witness ==
    /\ ppc = "returned"
    /\ \E k \in 1..Len(rules) :
            rules[k].section = BashStandards /\ Range(rules[k].scope) = BashGlobs
    /\ \E k \in 1..Len(rules) : Cardinality(Hits(SECTION_SCOPES, rules[k].section)) > 1
    /\ \E k \in 1..Len(rules) : rules[k].scope = <<AllScope>>

\* One of the keywords of the entry of the tag map occurs in the title.
TagApplies(entry, title) ==
    \E w \in 1..Len(entry.value) : OccursIgnoringCase(entry.value[w], title)

\* C15: a rule has a tag exactly when one of the keywords of the tag occurs in
\* the title of its section, case ignored, and has no tag twice and none that
\* the tag map does not know; it has the tag "security" when the title has
\* "Security" in it.
C15_TagsExactlyByKeyword ==
    \A k \in 1..Len(rules) :
        /\ \A t \in 1..Len(tag_map) :
                tag_map[t].key \in Range(rules[k].tags) <=> TagApplies(tag_map[t], rules[k].section)
        /\ Range(rules[k].tags) \subseteq {tag_map[t].key : t \in 1..Len(tag_map)}
        /\ Cardinality(Range(rules[k].tags)) = Len(rules[k].tags)
        /\ OccursIgnoringCase(SecurityWord, rules[k].section) =>
                SecurityWord \in Range(rules[k].tags)

\* C15's cases: parse() returned a rule with several tags, a rule with none,
\* and a rule of a section with "security" in its title.
C15_Witness ==
    /\ ppc = "returned"
    /\ \E k \in 1..Len(rules) : Len(rules[k].tags) > 1
    /\ \E k \in 1..Len(rules) : rules[k].tags = <<>>
    /\ \E k \in 1..Len(rules) :
            /\ OccursIgnoringCase(SecurityWord, rules[k].section)
            /\ SecurityWord \in Range(rules[k].tags)

\* ---------------------------------------------------------------------------
\* Properties of the heading titles
\* ---------------------------------------------------------------------------

\* A title without its leading ordinal "N." or "N.M" and the whitespace after
\* it; the title itself when it has none.
WithoutOrdinal(title) ==
    With(Run(title, 1, Digits),
         LAMBDA n :
            IF n >= 1 /\ n < Len(title) /\ title[n + 1] = "."
            THEN LStrip(From(title, n + 2 + Run(title, n + 2, Digits)))
            ELSE title)

\* The titles the headings of a level in the document are to give.
TitlesOf(level) ==
    {WithoutOrdinal(Strip(From(Chars(doc[i]), Len(Marker(level)) + 1))) :
        i \in {j \in 1..Len(doc) : StartsWith(Chars(doc[j]), Marker(level))}}

\* C16: the title of a section and the title of a subsection are the text of
\* the heading without its leading ordinal, be that of the form "N." or of the
\* form "N.M"; only that first ordinal is removed and the rest is unchanged.
C16_OrdinalRemoved ==
    ppc = "returned" =>
        /\ \A s \in 1..Len(sections) : sections[s].key \in TitlesOf(2)
        /\ \A k \in 1..Len(rules) :
                rules[k].subsection # <<>> => rules[k].subsection \in TitlesOf(3)

\* The titles the headings of a level give when a section loses an ordinal
\* "N." only and a subsection an ordinal "N.M" only.
TitlesByLevel(level) ==
    {HeadingTitle(level, Chars(doc[i])) :
        i \in {j \in 1..Len(doc) : StartsWith(Chars(doc[j]), Marker(level))}}

\* What holds of the titles: each level loses the ordinal of its own form.
C16_OrdinalOfOwnForm ==
    ppc = "returned" =>
        /\ \A s \in 1..Len(sections) : sections[s].key \in TitlesByLevel(2)
        /\ \A k \in 1..Len(rules) :
                rules[k].subsection # <<>> => rules[k].subsection \in TitlesByLevel(3)
        /\ \A k \in 1..Len(rules) :
                rules[k].section \in {sections[s].key : s \in 1..Len(sections)}

\* The headings of the claim's example: parse() returned a rule of section
\* "Bash Standards" and subsection "File Naming".
C16_ExampleCase ==
    /\ ppc = "returned"
    /\ \E k \in 1..Len(rules) :
            /\ rules[k].section = BashStandards
            /\ rules[k].subsection =
                    <<"F", "i", "l", "e", " ", "N", "a", "m", "i", "n", "g">>

\* ---------------------------------------------------------------------------
\* Properties of main()
\* ---------------------------------------------------------------------------

\* The failure cases of a run that has ended: a missing input document, a
\* missing template directory, a failed parse, a failed transformer, a failed
\* validation, a failed write.
InputMissing == ~context_exists
TemplatesMissing == ~templates_exist
ParseFailed == started = <<"parse">>
TransformFailed == started = <<"parse", "transform">>
ValidationFailed ==
    /\ started = <<"parse", "transform", "validate">>
    /\ vpc = "raised" \/ errors # <<>>
WriteFailed == "write" \in Range(started) /\ Len(written) < Len(all_files)

SomeFailure ==
    \/ InputMissing
    \/ TemplatesMissing
    \/ ParseFailed
    \/ TransformFailed
    \/ ValidationFailed
    \/ WriteFailed

\* C18: the exit code of the command line is 0 exactly when the whole pipeline
\* succeeded and 1 in each failure case: input document missing, template
\* directory missing, parse failure, transformer failure, validation failure,
\* write failure.
C18_ExitCode ==
    mpc = "exited" =>
        /\ exit_code \in {<<0>>, <<1>>}
        /\ SomeFailure <=> exit_code = <<1>>
        /\ exit_code = <<0>> =>
                /\ started \in {<<"parse", "transform", "validate">>, StageOrder}
                /\ Len(returned) = Len(Roster)
                /\ vpc = "returned" /\ vresult /\ errors = <<>>
                /\ dry_run <=> started # StageOrder
                /\ ~dry_run => written = all_files

\* C18's cases, one by one: the command line has exited after the failure.
C18_ParseFailureCase == mpc = "exited" /\ ParseFailed /\ exit_code = <<1>>
C18_TransformFailureCase == mpc = "exited" /\ TransformFailed /\ exit_code = <<1>>
C18_ValidationFailureCase == mpc = "exited" /\ ValidationFailed /\ exit_code = <<1>>
C18_WriteFailureCase == mpc = "exited" /\ WriteFailed /\ exit_code = <<1>>
C18_MissingCase == mpc = "exited" /\ (InputMissing \/ TemplatesMissing) /\ exit_code = <<1>>

\* C18's case of success: a real run has written its files, two at least, and
\* the command line has exited with 0.
C18_Witness ==
    /\ mpc = "exited"
    /\ exit_code = <<0>>
    /\ ~dry_run
    /\ Len(written) > 1

\* ---------------------------------------------------------------------------
\* Properties of a dry run
\* ---------------------------------------------------------------------------

\* C19: a dry run never writes a file; it still runs parse, transform and
\* validate, returns false if one of them fails and true otherwise; so it
\* differs from a real run only in the writing of the files.
C19_DryRunReturns ==
    dry_run =>
        /\ written = <<>>
        /\ "write" \notin Range(started)
        /\ pc = "done" =>
                /\ result \in {"true", "false"}
                /\ result = "false" <=> (ParseFailed \/ TransformFailed \/ ValidationFailed)
                /\ result = "true" =>
                        /\ started = <<"parse", "transform", "validate">>
                        /\ Len(returned) = Len(Roster)
                        /\ vpc = "returned" /\ vresult /\ vfiles = all_files

\* What holds of a dry run: all of C19 when validate_all returns; and when
\* validate_all raises, sync() raises too, with nothing written.  A real run
\* starts to write exactly where the dry run returns true.
C19_DryRunUnlessRaised ==
    /\ dry_run =>
        /\ written = <<>>
        /\ "write" \notin Range(started)
        /\ pc = "done" =>
                /\ result = "raised" <=> vpc = "raised"
                /\ result = "false" <=>
                        (ParseFailed \/ TransformFailed \/ (ValidationFailed /\ vpc # "raised"))
                /\ result = "true" =>
                        /\ started = <<"parse", "transform", "validate">>
                        /\ Len(returned) = Len(Roster)
                        /\ vpc = "returned" /\ vresult /\ vfiles = all_files
    /\ ~dry_run =>
        /\ "write" \in Range(started) <=>
                (Len(returned) = Len(Roster) /\ vpc = "returned" /\ vresult)
        /\ (pc = "done" /\ "write" \notin Range(started)) =>
                /\ result = "raised" <=> vpc = "raised"
                /\ result = "false" <=>
                        (ParseFailed \/ TransformFailed \/ (ValidationFailed /\ vpc # "raised"))

\* A dry run in which validate_all raised.
C19_RaisedCase == dry_run /\ pc = "done" /\ vpc = "raised"

\* A dry run that returned true on two files or more.
C19_DryRunCase == dry_run /\ pc = "done" /\ result = "true" /\ Len(all_files) > 1

\* ---------------------------------------------------------------------------
\* Properties of the Cursor transformer
\* ---------------------------------------------------------------------------

\* The rule has the tag.
HasTag(rule, tag) == tag \in Range(rule.tags)

\* The path C20 routes the rule to.
RoutedTo(rule) ==
    With(Hits(FILE_MAPPING, rule.section),
         LAMBDA hits :
            IF hits # {} THEN FILE_MAPPING[MinOf(hits)].value
            ELSE IF HasTag(rule, SecurityTag) THEN ".cursor/rules/006_security.mdc"
            ELSE IF HasTag(rule, BashTag) THEN ".cursor/rules/003_bash_standards.mdc"
            ELSE IF HasTag(rule, PythonTag) THEN ".cursor/rules/004_python_standards.mdc"
            ELSE ".cursor/rules/001_workspace.mdc")

\* The rules routed to the path, in input order.
RulesAt(path) == SelectSeq(rules, LAMBDA rule : RoutedTo(rule) = path)

\* The renderings of the rules with the horizontal rule between them.
RECURSIVE Separated(_)
Separated(rs) ==
    IF Len(rs) = 1 THEN render_template(rs[1])
    ELSE render_template(rs[1]) \o <<"\n", "\n", "-", "-", "-", "\n", "\n">> \o Separated(Tail(rs))

\* C20: the Cursor transformer routes each rule to one path: that of the first
\* entry of the routing table whose key occurs in the section of the rule,
\* case ignored; else the security, bash or python path, in this order, of a
\* tag the rule has; else the workspace path.  The file of a path holds the
\* rules routed to it in input order with a horizontal rule between them, and
\* a path with no rules has no file.
C20_CursorRouting ==
    cpc = "returned" =>
        /\ Keys(cursor_files) = {RoutedTo(rules[k]) : k \in 1..Len(rules)}
        /\ Cardinality(Keys(cursor_files)) = Len(cursor_files)
        /\ \A f \in 1..Len(cursor_files) :
                cursor_files[f].value = Separated(RulesAt(cursor_files[f].key))

\* C20's cases: transform returned a file of two rules, one routed by the
\* table and one by its tag "security" though it has the tag "bash" too, and a
\* file of a rule that neither table nor tags route.
C20_Witness ==
    /\ cpc = "returned"
    /\ \E j \in 1..Len(rules) : \E k \in 1..Len(rules) :
            /\ j # k
            /\ Hits(FILE_MAPPING, rules[j].section) # {}
            /\ Hits(FILE_MAPPING, rules[k].section) = {}
            /\ HasTag(rules[k], SecurityTag) /\ HasTag(rules[k], BashTag)
            /\ RoutedTo(rules[j]) = RoutedTo(rules[k])
            /\ Len(RulesAt(RoutedTo(rules[k]))) = 2
    /\ \E k \in 1..Len(rules) :
            /\ Hits(FILE_MAPPING, rules[k].section) = {}
            /\ rules[k].tags = <<>>
            /\ ".cursor/rules/001_workspace.mdc" \in Keys(cursor_files)

\* ---------------------------------------------------------------------------
\* Properties of repeated calls
\* ---------------------------------------------------------------------------

\* The priority, scope and tags of a rule.
ClassOf(rule) == <<rule.priority, rule.scope, rule.tags>>

\* C17: two calls of parse() on the same document return the same rules in
\* the same order, whatever was called in between; the same section title is
\* always given the same priority, scope and tags; and the classification
\* tables are never modified.
C17_Deterministic ==
    /\ \A i \in 1..Len(calls) : \A j \in 1..Len(calls) :
            /\ calls[i].doc = calls[j].doc => calls[i].rules = calls[j].rules
            /\ \A r \in 1..Len(calls[i].rules) : \A q \in 1..Len(calls[j].rules) :
                    calls[i].rules[r].section = calls[j].rules[q].section
                        => ClassOf(calls[i].rules[r]) = ClassOf(calls[j].rules[q])
    /\ tables = ClassTables

\* C17's case: parse() has returned three times, the first and the last time
\* on the same document with rules of a scope of their own, in between on
\* another, and transform and validate_all have been called.
C17_Witness ==
    /\ Len(calls) = 3
    /\ calls[1].doc = calls[3].doc
    /\ calls[2].doc # calls[1].doc
    /\ calls[1].rules # <<>>
    /\ calls[1].rules[1].scope # DefaultScope
    /\ cpc = "returned"
    /\ vpc # "idle"

\* ---------------------------------------------------------------------------
\* Properties of the Claude and Copilot transformers
\* ---------------------------------------------------------------------------

\* The indices of the rules that are the first of their section.
FirstOfSection ==
    SelectSeq([i \in 1..Len(rules) |-> i],
              LAMBDA i : \A j \in 1..(i - 1) : rules[j].section # rules[i].section)

\* The rules of the section, in input order.
RulesOfSection(section) == SelectSeq(rules, LAMBDA rule : rule.section = section)

\* After a blank line the heading of the section, and then after a blank line
\* each the renderings of its rules.
SectionText(section, marker) ==
    <<"\n", "\n">> \o marker \o section
    \o Join([k \in 1..Len(RulesOfSection(section)) |->
                <<"\n", "\n">> \o Strip(render_template(RulesOfSection(section)[k]))],
            <<>>)

\* The header, then the text of each section in the order of the first rule
\* of each, then the final newline.
GroupedText(header, marker) ==
    RStrip(header)
    \o Join([k \in 1..Len(FirstOfSection) |->
                SectionText(rules[FirstOfSection[k]].section, marker)],
            <<>>)
    \o <<"\n">>

\* C21: the Claude and the Copilot transformer each return one file; it holds
\* the heading of each section of the rules once, the sections in the order
\* of their first rule, and under each heading the rules of the section in
\* input order.
C21_GroupedBySection ==
    /\ Len(returned) >= 2 =>
            returned[2] = <<[key |-> "CLAUDE.md",
                             value |-> GroupedText(ClaudeHeader, <<"#", "#", " ">>)]>>
    /\ Len(returned) >= 3 =>
            returned[3] = <<[key |-> ".github/copilot-instructions.md",
                             value |-> GroupedText(CopilotHeader, <<"#", " ">>)]>>

\* C21's case: both have returned for rules of which the first and the third
\* are of one section and the second of another.
C21_Witness ==
    /\ Len(returned) >= 3
    /\ Len(rules) = 3
    /\ rules[1].section = rules[3].section
    /\ rules[1].section # rules[2].section
    /\ rules[1] # rules[3]

\* C21's other case: both have returned for no rules at all.
C21_EmptyCase ==
    /\ Len(returned) >= 3
    /\ rules = <<>>

\* ---------------------------------------------------------------------------
\* Properties of the roster
\* ---------------------------------------------------------------------------

\* C26: the transformers of the roster return file maps of pairwise disjoint
\* paths, so the merged map keeps the content each of them returned for each
\* of its paths and has as many files as they return together; and no path of
\* the routing table of the Cursor transformer is a path of another one.
C26_DisjointOutputs ==
    /\ \A i \in 1..Len(returned) : \A j \in 1..Len(returned) :
            i # j => Keys(returned[i]) \cap Keys(returned[j]) = {}
    /\ \A i \in 1..Len(returned) : \A f \in 1..Len(returned[i]) :
            /\ returned[i][f].key \in Keys(all_files)
            /\ Get(all_files, returned[i][f].key) = returned[i][f].value
    /\ Len(all_files) = Len(Join(returned, <<>>))
    /\ Cardinality(Keys(all_files)) = Len(all_files)
    /\ \A i \in 1..Len(FILE_MAPPING) : \A j \in 2..Len(returned) :
            FILE_MAPPING[i].value \notin Keys(returned[j])

\* C26's case: the four transformers have returned, the Cursor one two files,
\* and the merged map has five.
C26_Witness ==
    /\ Len(returned) = Len(Roster)
    /\ Len(returned[1]) = 2
    /\ \A i \in 2..Len(returned) : Len(returned[i]) = 1
    /\ Len(all_files) = 5

\* ---------------------------------------------------------------------------
\* Properties of the section and subsection boundaries
\* ---------------------------------------------------------------------------

\* The rules of the sections from item i on, in order.
RECURSIVE RulesFrom(_, _)
RulesFrom(secs, i) ==
    IF i > Len(secs) THEN <<>>
    ELSE parse_section(secs[i].key, secs[i].value) \o RulesFrom(secs, i + 1)

\* The rules parse() returns for the document d.
RulesOfDoc(d) == RulesFrom(split_into_sections(Text(d)), 1)

\* Line i of the document is before the first section heading.
BeforeSections(i) == \A h \in 1..i : ~IsSectionLine(h)

\* Line i of the document is between a section heading and the first
\* subsection heading of that section.
BeforeSubsections(i) ==
    /\ ~IsSectionLine(i)
    /\ \E h \in 1..(i - 1) :
            /\ IsSectionLine(h)
            /\ i <= SectionEnd(h)
            /\ \E s \in SubsectionLines(h) : s > i
            /\ \A s \in SubsectionLines(h) : s > i

\* The document without the lines C22 says contribute to no rule.
WithoutDropped ==
    [k \in 1..Len(SelectSeq([i \in 1..Len(doc) |-> i],
                            LAMBDA i : ~BeforeSections(i) /\ ~BeforeSubsections(i)))
        |-> doc[SelectSeq([i \in 1..Len(doc) |-> i],
                          LAMBDA i : ~BeforeSections(i) /\ ~BeforeSubsections(i))[k]]]

\* The titles of the lines of body that begin with "### ".
SubsectionTitles(body) ==
    {HeadingTitle(3, Lines(body)[k]) :
        k \in {j \in 1..Len(Lines(body)) : StartsWith(Lines(body)[j], <<"#", "#", "#", " ">>)}}

\* The lines that begin with "## " and no others start the sections, and
\* within a section the lines that begin with "### " and no others start the
\* subsections; the rules returned are those of the document without the
\* lines before its first section heading and without the lines between a
\* section heading and the first subsection heading of the section.
Boundaries ==
    /\ ppc # "idle" =>
            /\ Keys(sections) =
                    {HeadingTitle(2, Chars(doc[i])) :
                        i \in {j \in 1..Len(doc) : StartsWith(Chars(doc[j]), <<"#", "#", " ">>)}}
            /\ \A k \in 1..Len(sections) :
                    Keys(split_into_subsections(sections[k].value))
                        = SubsectionTitles(sections[k].value)
    /\ ppc = "returned" => rules = RulesOfDoc(WithoutDropped)

\* C22: a line starts a section iff it begins with "## " and a subsection iff
\* it begins with "### "; the lines before the first section heading, and in
\* a section with a subsection the lines between the section heading and its
\* first subsection heading, contribute to no rule.
C22_Boundaries == Boundaries

\* Every heading of the document has a title that is not empty once its
\* number is removed.
HeadingsTitled ==
    \A i \in 1..Len(doc) :
        /\ IsSectionLine(i) => HeadingTitle(2, Chars(doc[i])) # <<>>
        /\ IsSubsectionLine(i) => HeadingTitle(3, Chars(doc[i])) # <<>>

\* The same for the documents all of whose headings have a title.
C22_BoundariesOfTitled == HeadingsTitled => Boundaries

\* The case in which C22 fails: parse() has returned a rule of a section that
\* has a line beginning with "### ", and the line between the section heading
\* and that line is in the content of the rule.
C22_UntitledCase ==
    /\ ppc = "returned"
    /\ doc = <<"## A", "t", "### 1.1", "t">>
    /\ Len(rules) = 1
    /\ rules[1].content = Text(<<"t", "### 1.1", "t">>)

\* The case in which it holds: a line of prose between a section heading and
\* a titled subsection heading, and a rule of the subsection only.
C22_TitledCase ==
    /\ ppc = "returned"
    /\ HeadingsTitled
    /\ \E i \in 1..Len(doc) : BeforeSubsections(i) /\ doc[i] = "t"
    /\ Len(rules) = 1
    /\ rules[1].subsection # <<>>
    /\ rules[1].content = Chars("t")

\* ---------------------------------------------------------------------------
\* Properties of the dispatch of _validate_file
\* ---------------------------------------------------------------------------

\* The messages of the YAML check, of the frontmatter check, of the Markdown
\* check and of the common checks.
YamlMsgs == {"Invalid YAML syntax"}
FrontmatterMsgs ==
    {"Missing YAML frontmatter", "Invalid frontmatter structure", "Invalid frontmatter YAML",
     "Missing 'priority' in frontmatter", "Missing 'globs' in frontmatter"}
MarkdownMsgs == {"Unclosed code fence", "Heading hierarchy skip"}
CommonMsgs == {"Trailing whitespace", "Missing final newline", "Line too long"}

\* The messages of the checks C23 gives the extension of the path.
FormatMsgs(path) ==
    IF Suffix(path) \in {<<".", "y", "a", "m", "l">>, <<".", "y", "m", "l">>} THEN YamlMsgs
    ELSE IF Suffix(path) = <<".", "m", "d", "c">> THEN FrontmatterMsgs \cup MarkdownMsgs
    ELSE IF Suffix(path) = <<".", "m", "d">> THEN MarkdownMsgs
    ELSE {}

\* The text the Markdown check of the file is about: of a .md file all of it,
\* of a split .mdc file its body.
MarkdownPart(file) ==
    IF Suffix(file.key) = <<".", "m", "d">> THEN Text(file.value)
    ELSE MdcParts(file)[3]

\* In the list no entry of the Markdown check is before one of the
\* frontmatter check.
FrontmatterFirst(list) ==
    \A i \in 1..Len(list) : \A j \in 1..Len(list) :
        (list[i].msg \in MarkdownMsgs /\ list[j].msg \in FrontmatterMsgs) => j < i

\* What C23 asks of the lists once the validator is done with the file: the
\* entries are of the checks of its extension and of the common checks; the
\* check of the extension has run; and the common checks have run, after it.
DispatchedByExtension(file) ==
    /\ \A e \in Range(errors) \cup Range(warnings) :
            e.file = file.key /\ e.msg \in FormatMsgs(file.key) \cup CommonMsgs
    /\ YamlMsgs \subseteq FormatMsgs(file.key) =>
            (Entry(file.key, 0, "Invalid YAML syntax") \in Range(errors)
                <=> YamlLoad(Text(file.value)).kind = "error")
    /\ (Suffix(file.key) = <<".", "m", "d">>
            \/ (Suffix(file.key) = <<".", "m", "d", "c">> /\ MdcIsSplit(file))) =>
            /\ FenceErrorFor(file) <=> CountOcc(MarkdownPart(file), Fence) % 2 = 1
            /\ FrontmatterFirst(errors)
            /\ FrontmatterFirst(warnings)
    /\ (Suffix(file.key) = <<".", "m", "d", "c">> /\ ~MdcIsSplit(file)) =>
            \E e \in Range(errors) : e.msg \in FrontmatterMsgs
    /\ \A e \in Range(errors) : e.msg \notin CommonMsgs
    /\ SelectSeq(warnings, LAMBDA e : e.msg \in CommonMsgs)
            = validate_common(file.key, Text(file.value)).warnings
    /\ \A i \in 1..Len(warnings) : \A j \in 1..Len(warnings) :
            (warnings[i].msg \in CommonMsgs /\ warnings[j].msg \notin CommonMsgs) => j < i

\* C23: validation is dispatched on the extension of the path: a .yaml or
\* .yml file gets the YAML check only, a .mdc file the frontmatter check and
\* then the Markdown check of its body, a .md file the Markdown check only,
\* any other file no check of its format; and every file gets the common
\* checks, whatever its extension and whatever the check of its format found.
C23_DispatchByExtension ==
    vpc \in {"returned", "raised"} => DispatchedByExtension(vfiles[1])

\* The same for the calls of validate_all that return.
C23_DispatchWhenReturned ==
    vpc = "returned" => DispatchedByExtension(vfiles[1])

\* The case in which C23 fails: the frontmatter check of a .mdc file raised,
\* and the file lacks the final newline the common checks would warn about.
C23_RaisedCase ==
    /\ vpc = "raised"
    /\ Suffix(vfiles[1].key) = <<".", "m", "d", "c">>
    /\ validate_common(vfiles[1].key, Text(vfiles[1].value)).warnings # <<>>
    /\ warnings = <<>>

\* The case in which it holds: the check of the format recorded an error and
\* the common checks a warning.
C23_ErrorCase ==
    /\ vpc = "returned"
    /\ \E e \in Range(errors) : e.msg \in FormatMsgs(vfiles[1].key)
    /\ \E e \in Range(warnings) : e.msg \in CommonMsgs

\* ---------------------------------------------------------------------------
\* Properties of the hygiene and hierarchy warnings
\* ---------------------------------------------------------------------------

\* How many entries of the list hold the message.
CountMsg(list, msg) == Len(SelectSeq(list, LAMBDA e : e.msg = msg))

\* Line i of lines is a fence line, or is between an opening fence line and
\* the next fence line.
Fenced(lines, i) ==
    \/ StartsWith(Strip(lines[i]), Fence)
    \/ Cardinality({j \in 1..(i - 1) : StartsWith(Strip(lines[j]), Fence)}) % 2 = 1

\* The levels of the headings of the text, in order.
LevelsOf(text) ==
    SelectSeq([i \in 1..Len(Lines(text)) |-> HeadingLevel(Lines(text), i)],
              LAMBDA level : level > 0)

\* How many headings of the text are more than one level deeper than the
\* heading before them.
Skips(text) ==
    Cardinality({k \in 2..Len(LevelsOf(text)) : LevelsOf(text)[k] > LevelsOf(text)[k - 1] + 1})

\* The file gets the Markdown check: a .md file, or a .mdc file that splits
\* into frontmatter and body.
GetsMarkdownCheck(file) ==
    \/ Suffix(file.key) = <<".", "m", "d">>
    \/ Suffix(file.key) = <<".", "m", "d", "c">> /\ MdcIsSplit(file)

\* What C24 asks of the lists once the validator is done with the file whose
\* lines are lines: a warning for each defect, for nothing else, and no error.
AdvisoryOnly(file, lines) ==
    /\ \A i \in 1..Len(lines) :
            /\ (lines[i] # <<>> /\ lines[i][Len(lines[i])] \in {" ", "\t"})
                    <=> Entry(file.key, i, "Trailing whitespace") \in Range(warnings)
            /\ (Len(lines[i]) > 120 /\ ~Fenced(lines, i))
                    <=> Entry(file.key, i, "Line too long") \in Range(warnings)
    /\ (Text(file.value) # <<>> /\ Text(file.value)[Len(Text(file.value))] # "\n")
            <=> Entry(file.key, 0, "Missing final newline") \in Range(warnings)
    /\ CountMsg(warnings, "Trailing whitespace")
            = Cardinality({i \in 1..Len(lines) :
                                Entry(file.key, i, "Trailing whitespace") \in Range(warnings)})
    /\ CountMsg(warnings, "Line too long")
            = Cardinality({i \in 1..Len(lines) :
                                Entry(file.key, i, "Line too long") \in Range(warnings)})
    /\ CountMsg(warnings, "Missing final newline") <= 1
    /\ CountMsg(warnings, "Heading hierarchy skip")
            = (IF GetsMarkdownCheck(file) THEN Skips(MarkdownPart(file)) ELSE 0)
    /\ \A e \in Range(errors) :
            e.msg \notin {"Trailing whitespace", "Line too long", "Missing final newline",
                          "Heading hierarchy skip"}
    /\ (errors = <<>>) <=>
            /\ YamlMsgs \subseteq FormatMsgs(file.key) => YamlLoad(Text(file.value)).kind # "error"
            /\ Suffix(file.key) = <<".", "m", "d", "c">> =>
                    /\ MdcIsSplit(file)
                    /\ YamlLoad(MdcParts(file)[2]).kind # "error"
            /\ GetsMarkdownCheck(file) => CountOcc(MarkdownPart(file), Fence) % 2 = 0

\* C24: a heading more than one level deeper than the heading before it, a
\* line with trailing whitespace, a non-empty file without a final newline
\* and a line of more than 120 characters outside a code fence each add a
\* warning and never an error; a heading at most one level deeper than the
\* one before it and an overlong line inside a fence add nothing.
C24_AdvisoryOnly ==
    vpc \in {"returned", "raised"} => AdvisoryOnly(vfiles[1], Lines(Text(vfiles[1].value)))

\* The same for the calls of validate_all that return.
C24_AdvisoryWhenReturned ==
    vpc = "returned" => AdvisoryOnly(vfiles[1], Lines(Text(vfiles[1].value)))

\* The case in which C24 fails: validate_all raised on a file that has a line
\* with trailing whitespace, and no warning was added.
C24_RaisedCase ==
    /\ vpc = "raised"
    /\ \E i \in 1..Len(vfiles[1].value) : vfiles[1].value[i] = "t "
    /\ warnings = <<>>

\* The cases in which it holds: validate_all returned true on a Markdown file
\* with a heading two levels deeper than the one before it, with a line with
\* trailing whitespace and with a long line, and gave a warning for each; and
\* it gave none for a long line inside a fence.
C24_WarningsCase ==
    /\ vpc = "returned"
    /\ vresult
    /\ CountMsg(warnings, "Heading hierarchy skip") = 1
    /\ CountMsg(warnings, "Trailing whitespace") = 1
    /\ CountMsg(warnings, "Line too long") = 1

C24_FencedLongLineCase ==
    /\ vpc = "returned"
    /\ \E i \in 1..Len(vfiles[1].value) :
            /\ vfiles[1].value[i] = "LONG"
            /\ Fenced(Lines(Text(vfiles[1].value)), i)
    /\ CountMsg(warnings, "Line too long") = 0

\* ---------------------------------------------------------------------------
\* Properties of repeated validation
\* ---------------------------------------------------------------------------

\* The entries of both lists.
AllEntries(errs, warns) == Range(errs) \cup Range(warns)

\* C25: every call of validate_all starts from empty lists: while it runs, and
\* when it is over, the lists hold entries only about the files of its own
\* map that it has gone through; two calls on the same map leave the same
\* lists and the same verdict, whatever was called before them; and a call on
\* the clean map returns true with empty lists after any other call.
C25_OnlyTheLastCall ==
    /\ \A e \in AllEntries(errors, warnings) :
            \E k \in 1..Len(vfiles) : k <= vidx /\ e.file = vfiles[k].key
    /\ \A i \in 1..Len(vcalls) :
            /\ \A e \in AllEntries(vcalls[i].errors, vcalls[i].warnings) :
                    e.file \in Keys(vcalls[i].files)
            /\ \A j \in 1..Len(vcalls) :
                    vcalls[i].files = vcalls[j].files => vcalls[i] = vcalls[j]
            /\ vcalls[i].files = <<[key |-> "CLAUDE.md", value |-> <<"# h", "">>]>> =>
                    /\ vcalls[i].outcome = "true"
                    /\ vcalls[i].errors = <<>>
                    /\ vcalls[i].warnings = <<>>

\* C25's case: a call that returned false with errors, then a call on another
\* map that returned true, then a call on the map of the first.
C25_Witness ==
    /\ Len(vcalls) = 3
    /\ vcalls[1].outcome = "false"
    /\ vcalls[1].errors # <<>>
    /\ vcalls[2].outcome = "true"
    /\ vcalls[2].files # vcalls[1].files
    /\ vcalls[3].files = vcalls[1].files

\* ---------------------------------------------------------------------------
\* Properties of headings that give the same title
\* ---------------------------------------------------------------------------

\* The heading lines of the level among lines.
HeadsOf(lines, level) == {i \in 1..Len(lines) : StartsWith(lines[i], Marker(level))}

\* The last line of the part that the heading at line i starts.
PartEnd(lines, level, i) ==
    IF \E j \in HeadsOf(lines, level) : j > i
    THEN MinOf({j \in HeadsOf(lines, level) : j > i}) - 1
    ELSE Len(lines)

\* The headings at lines i and j give the same title.
SameTitle(lines, level, i, j) ==
    HeadingTitle(level, lines[i]) = HeadingTitle(level, lines[j])

\* The last heading that gives the title of the heading at line i.
LastOfTitle(lines, level, i) ==
    MaxOf({j \in HeadsOf(lines, level) : SameTitle(lines, level, i, j)})

\* The headings that are the first to give their title, in order.
FirstOfTitle(lines, level) ==
    SortedSeq({i \in HeadsOf(lines, level) :
                    \A j \in HeadsOf(lines, level) : j < i => ~SameTitle(lines, level, i, j)})

\* The lines with, for each title, one part: at the place of the first
\* heading that gives the title, the body of the last one that gives it.
LaterBodyKept(lines, level) ==
    SubSeq(lines, 1, IF HeadsOf(lines, level) = {} THEN Len(lines)
                     ELSE MinOf(HeadsOf(lines, level)) - 1)
    \o Join([k \in 1..Len(FirstOfTitle(lines, level)) |->
                <<lines[FirstOfTitle(lines, level)[k]]>>
                \o SubSeq(lines,
                          LastOfTitle(lines, level, FirstOfTitle(lines, level)[k]) + 1,
                          PartEnd(lines, level,
                                  LastOfTitle(lines, level, FirstOfTitle(lines, level)[k])))],
            <<>>)

\* The rules are those of the document in which, of the sections of one
\* title, only the body of the last is kept, at the place of the first; and
\* the rules of each section are those of the section in which, of the
\* subsections of one title, only the body of the last is kept, at the place
\* of the first.
UniqueTitles ==
    /\ ppc = "returned" =>
            rules = RulesFrom(split_into_sections(
                                Join(LaterBodyKept([i \in 1..Len(doc) |-> Chars(doc[i])], 2),
                                     <<"\n">>)), 1)
    /\ ppc # "idle" =>
            \A k \in 1..Len(sections) :
                parse_section(sections[k].key, sections[k].value)
                    = parse_section(sections[k].key,
                                    Join(LaterBodyKept(Lines(sections[k].value), 3), <<"\n">>))

\* C27: when two section headings give the same title once their numbers are
\* removed, only the body of the later one is kept and gives rules, at the
\* place of the first; and so for two subsection headings of one section.
C27_UniqueTitles == UniqueTitles

\* The same for the documents all of whose headings have a title.
C27_UniqueTitlesOfTitled == HeadingsTitled => UniqueTitles

\* The case in which C27 fails: two subsection headings of one section that
\* are nothing but a number, and a rule with the body under the earlier one.
C27_UntitledCase ==
    /\ ppc = "returned"
    /\ doc = <<"## A", "t", "### 1.1", "t", "### 1.1", "y">>
    /\ Len(rules) = 1
    /\ rules[1].content = Text(<<"t", "### 1.1", "t", "### 1.1", "y">>)

\* The cases in which it holds: a section heading between two that give the
\* same title, and the rule of the later body first; and two subsection
\* headings of one title, and one rule, of the later body.
C27_SectionCase ==
    /\ ppc = "returned"
    /\ doc = <<"## 1. B", "t", "## A", "t", "## B", "y">>
    /\ Len(rules) = 2
    /\ rules[1].section = <<"B">> /\ rules[1].content = <<"y">>
    /\ rules[2].section = <<"A">>

C27_SubsectionCase ==
    /\ ppc = "returned"
    /\ doc = <<"## A", "t", "### x", "t", "### 1.1 x", "y">>
    /\ Len(rules) = 1
    /\ rules[1].subsection = <<"x">> /\ rules[1].content = <<"y">>
====
